---- MODULE Spec2Model ----
(***************************************************************************)
(* Model of the real-time DDoS detection pipeline                          *)
(* (src/real_time_detection): the flow aggregator (FlowState,              *)
(* FlowAggregator), the XDP filter manager (XDPManager), the predictor's   *)
(* labelling and the run() loop of main.py.                                *)
(*                                                                         *)
(* Representation of Python values:                                        *)
(*   str    a sequence of code points (so that <= on strings is the        *)
(*          lexicographic order Python uses and int()/float() are computed *)
(*          from the characters);                                          *)
(*   float  the exact rational <<num, den>>, den > 0, in lowest terms, or   *)
(*          <<0, 0>> (nan), <<1, 0>> (inf), <<-1, 0>> (-inf); sums and      *)
(*          differences are exact, not rounded to a double, and both terms *)
(*          stay within 32 bits; the standard deviation is rounded down to *)
(*          1/100;                                                         *)
(*   int    an integer within 32 bits;                                     *)
(*   dict   a sequence of <<key, value>> pairs in insertion order.         *)
(***************************************************************************)
EXTENDS Integers, Sequences, FiniteSets, TLC

(***************************************************************************)
(* Strings                                                                 *)
(***************************************************************************)
\* Python's str comparison: lexicographic by code point, a proper prefix is smaller.
RECURSIVE StrLT(_, _)
StrLT(a, b) ==
    IF b = <<>> THEN FALSE
    ELSE IF a = <<>> THEN TRUE
    ELSE IF Head(a) < Head(b) THEN TRUE
    ELSE IF Head(a) > Head(b) THEN FALSE
    ELSE StrLT(Tail(a), Tail(b))

\* the opposite comparison: (s1, p1) >= (s2, p2)
PairLE_Reversed(s1, p1, s2, p2) ==
    IF s1 # s2 THEN StrLT(s2, s1)
    ELSE IF p1 # p2 THEN StrLT(p2, p1)
    ELSE TRUE

\* Python's tuple comparison (s1, p1) <= (s2, p2) on pairs of strings.
PairLE(s1, p1, s2, p2) ==
    IF s1 # s2 THEN StrLT(s1, s2)
    ELSE IF p1 # p2 THEN StrLT(p1, p2)
    ELSE TRUE

IsDigit(c) == c \in 48..57
IsHexDigit(c) == c \in 48..57 \/ c \in 97..102 \/ c \in 65..70
HexVal(c) == IF c \in 48..57 THEN c - 48 ELSE IF c \in 97..102 THEN c - 87 ELSE c - 55

RECURSIVE DigitsVal(_, _, _)
DigitsVal(s, base, acc) ==
    IF s = <<>> THEN acc ELSE DigitsVal(Tail(s), base, acc * base + HexVal(Head(s)))

\* the outcome of a conversion: a value, or an exception raised
Raised == [ok |-> FALSE, val |-> 0]
Parsed(n) == [ok |-> TRUE, val |-> n]

\* the code points int() and float() take for white space
Whitespace ==
    {9, 10, 11, 12, 13, 32, 133, 160, 5760, 8232, 8233, 8239, 8287, 12288}
    \cup (8192..8202)

\* the digit zero of every Unicode decimal-digit range (category Nd); the ten
\* digits of a range are consecutive code points
DecimalZeros ==
    {48, 1632, 1776, 1984, 2406, 2534, 2662, 2790, 2918, 3046, 3174, 3302,
     3430, 3558, 3664, 3792, 3872, 4160, 4240, 6112, 6160, 6470, 6608, 6784,
     6800, 6992, 7088, 7232, 7248, 42528, 43216, 43264, 43472, 43504, 43600,
     44016, 65296, 66720, 68912, 69734, 69872, 69942, 70096, 70384, 70736,
     70864, 71248, 71360, 71472, 71904, 72016, 72784, 73040, 73120, 92768,
     92864, 93008, 120782, 120792, 120802, 120812, 120822, 123200, 123632,
     125264, 130032}

\* the value of a decimal digit of any script, -1 for any other code point
DecimalValue(c) ==
    IF \E z \in DecimalZeros : c - z \in 0..9
    THEN c - (CHOOSE z \in DecimalZeros : c - z \in 0..9) ELSE -1

\* what int() and float() do to a str before they read it: white space becomes
\* a blank, a decimal digit of any script its ASCII digit, any other non-ASCII
\* character "?"
ToAscii(c) ==
    IF c \in Whitespace THEN 32
    ELSE IF c < 128 THEN c
    ELSE IF DecimalValue(c) >= 0 THEN 48 + DecimalValue(c)
    ELSE 63

RECURSIVE LStrip(_)
LStrip(s) == IF s # <<>> /\ Head(s) = 32 THEN LStrip(Tail(s)) ELSE s
RECURSIVE RStrip(_)
RStrip(s) ==
    IF s # <<>> /\ s[Len(s)] = 32 THEN RStrip(SubSeq(s, 1, Len(s) - 1)) ELSE s

\* the text of a number: transliterated, without the surrounding white space
NumberText(s) == RStrip(LStrip([i \in 1..Len(s) |-> ToAscii(s[i])]))

\* an optional sign in front of a number
Unsigned(s) == IF s # <<>> /\ s[1] \in {43, 45} THEN Tail(s) ELSE s
Signed(s, n) == IF s # <<>> /\ s[1] = 45 THEN -n ELSE n

IsBaseDigit(c, base) == IsHexDigit(c) /\ HexVal(c) < base

\* one or more digits of the base; an underscore only between two digits
ValidDigits(s, base) ==
    /\ s # <<>>
    /\ \A i \in 1..Len(s) :
          \/ IsBaseDigit(s[i], base)
          \/ /\ s[i] = 95
             /\ i > 1
             /\ i < Len(s)
             /\ IsBaseDigit(s[i - 1], base)
             /\ IsBaseDigit(s[i + 1], base)

DropUnderscores(s) == SelectSeq(s, LAMBDA c : c # 95)

\* int(s) on a str: white space around, an optional sign, decimal digits with
\* single underscores between them; anything else raises ValueError
ParseInt(s) ==
    LET t == NumberText(s)
        u == Unsigned(t)
    IN IF ValidDigits(u, 10)
       THEN Parsed(Signed(t, DigitsVal(DropUnderscores(u), 10, 0)))
       ELSE Raised

Pow10(k) == DigitsVal([i \in 1..(k + 1) |-> IF i = 1 THEN 49 ELSE 48], 10, 0)

\* the first position of s that holds a character of cs, 0 if none
FirstOf(s, cs) ==
    IF \E i \in 1..Len(s) : s[i] \in cs
    THEN CHOOSE i \in 1..Len(s) : s[i] \in cs /\ \A j \in 1..(i - 1) : s[j] \notin cs
    ELSE 0

ToLower(s) == [i \in 1..Len(s) |-> IF s[i] \in 65..90 THEN s[i] + 32 ELSE s[i]]

Abs(n) == IF n < 0 THEN -n ELSE n

RECURSIVE GCD(_, _)
GCD(a, b) == IF b = 0 THEN a ELSE GCD(b, a % b)

\* the float n / d (d > 0), in lowest terms
Rat(n, d) ==
    LET g == GCD(Abs(n), d) IN IF n = 0 THEN <<0, 1>> ELSE <<n \div g, d \div g>>

\* the float special values: den = 0
NaN == <<0, 0>>
PosInf == <<1, 0>>
NegInf == <<-1, 0>>

\* mantissa * 10^k as a float: exact when both terms of the fraction fit the
\* integers of the checker; far outside the range of a double it is inf or 0.0
Scale10(m, ndigits, k) ==
    IF m = 0 THEN <<0, 1>>
    ELSE IF ndigits + k > 309 THEN PosInf
    ELSE IF ndigits + k < -324 THEN <<0, 1>>
    ELSE IF k >= 0 THEN <<m * Pow10(k), 1>>
    ELSE Rat(m, Pow10(-k))

RECURSIVE DropLeadingZeros(_)
DropLeadingZeros(s) ==
    IF s # <<>> /\ Head(s) = 48 THEN DropLeadingZeros(Tail(s)) ELSE s

\* float(s) on a str: white space around, an optional sign, then "inf",
\* "infinity" or "nan" in any case, or digits with an optional fraction and an
\* optional exponent (single underscores between digits); anything else raises
ParseFloat(s) ==
    LET t == NumberText(s)
        u == Unsigned(t)
        low == ToLower(u)
        w == DropUnderscores(u)
        e == FirstOf(w, {101, 69})
        mant == IF e = 0 THEN w ELSE SubSeq(w, 1, e - 1)
        expo == IF e = 0 THEN <<>> ELSE SubSeq(w, e + 1, Len(w))
        dot == FirstOf(mant, {46})
        ip == IF dot = 0 THEN mant ELSE SubSeq(mant, 1, dot - 1)
        fp == IF dot = 0 THEN <<>> ELSE SubSeq(mant, dot + 1, Len(mant))
        AllDigits(x) == \A i \in 1..Len(x) : IsDigit(x[i])
        underscores_ok ==
            \A i \in 1..Len(u) :
               u[i] = 95 =>
                  /\ i > 1
                  /\ i < Len(u)
                  /\ IsDigit(u[i - 1])
                  /\ IsDigit(u[i + 1])
        digits == DropLeadingZeros(ip \o fp)
        x == IF e = 0 THEN 0 ELSE Signed(expo, DigitsVal(Unsigned(expo), 10, 0))
        v == Scale10(DigitsVal(digits, 10, 0), Len(digits), x - Len(fp))
    IN IF low \in { <<105, 110, 102>>, <<105, 110, 102, 105, 110, 105, 116, 121>> }
       THEN Parsed(IF Signed(t, 1) < 0 THEN NegInf ELSE PosInf)
       ELSE IF low = <<110, 97, 110>> THEN Parsed(NaN)
       ELSE IF /\ underscores_ok
               /\ AllDigits(ip)
               /\ AllDigits(fp)
               /\ Len(ip) + Len(fp) >= 1
               /\ e = 0 \/ (Unsigned(expo) # <<>> /\ AllDigits(Unsigned(expo)))
       THEN Parsed(<<Signed(t, v[1]), v[2]>>)
       ELSE Raised

\* int(s, 0) on a str: white space around, an optional sign, then "0x", "0o" or
\* "0b" (either case) and digits of that base, or a decimal literal without a
\* leading zero (all zeros allowed); single underscores between digits and
\* after the prefix; anything else raises ValueError
ParseIntBase0(s) ==
    LET t == NumberText(s)
        u == Unsigned(t)
        prefixed == Len(u) >= 2 /\ u[1] = 48 /\ u[2] \in {120, 88, 111, 79, 98, 66}
        base == IF u[2] \in {120, 88} THEN 16 ELSE IF u[2] \in {111, 79} THEN 8 ELSE 2
        body == SubSeq(u, 3, Len(u))
        digits == IF body # <<>> /\ body[1] = 95 THEN Tail(body) ELSE body
    IN IF prefixed
       THEN IF ValidDigits(digits, base)
            THEN Parsed(Signed(t, DigitsVal(DropUnderscores(digits), base, 0)))
            ELSE Raised
       ELSE IF /\ ValidDigits(u, 10)
               /\ u[1] # 48 \/ \A i \in 1..Len(u) : u[i] \in {48, 95}
       THEN Parsed(Signed(t, DigitsVal(DropUnderscores(u), 10, 0)))
       ELSE Raised

\* a test that holds only when the flags value is exactly the mask
BitSet_Exact(n, mask) == n = mask

\* flags_int & mask # 0 for a one-bit mask; a negative flags_int is read in
\* two's complement, which the floored division gives
BitSet(n, mask) == (n \div mask) % 2 = 1

(***************************************************************************)
(* Rationals standing for floats                                           *)
(***************************************************************************)
RatOfInt(n) == <<n, 1>>
IsFinite(x) == x[2] # 0

\* x < y on floats: false when either is nan
RatLT(x, y) ==
    IF x = NaN \/ y = NaN \/ x = y THEN FALSE
    ELSE IF x = NegInf \/ y = PosInf THEN TRUE
    ELSE IF x = PosInf \/ y = NegInf THEN FALSE
    ELSE x[1] * y[2] < y[1] * x[2]
\* x >= y on floats: false when either is nan
RatGE(x, y) == x # NaN /\ y # NaN /\ ~RatLT(x, y)
\* a max that always answers its second argument
RatMax_Second(x, y) == y
\* max(x, y) of Python: y if y > x, else x
RatMax(x, y) == IF RatLT(x, y) THEN y ELSE x

RatNeg(x) == <<-x[1], x[2]>>
\* x + y on floats: nan with a nan and for inf + -inf
RatAdd(x, y) ==
    IF x = NaN \/ y = NaN THEN NaN
    ELSE IF ~IsFinite(x) THEN (IF ~IsFinite(y) /\ y # x THEN NaN ELSE x)
    ELSE IF ~IsFinite(y) THEN y
    ELSE Rat(x[1] * y[2] + y[1] * x[2], x[2] * y[2])
RatSub(x, y) == RatAdd(x, RatNeg(y))

RECURSIVE RatSum(_)
RatSum(s) == IF s = <<>> THEN <<0, 1>> ELSE RatAdd(Head(s), RatSum(Tail(s)))

\* np.mean of a list of floats
RatMean(s) ==
    LET t == RatSum(s) IN IF IsFinite(t) THEN Rat(t[1], t[2] * Len(s)) ELSE t

RECURSIVE SeqSum(_)
SeqSum(s) == IF s = <<>> THEN 0 ELSE Head(s) + SeqSum(Tail(s))

RECURSIVE SeqSumSq(_)
SeqSumSq(s) == IF s = <<>> THEN 0 ELSE Head(s) * Head(s) + SeqSumSq(Tail(s))

SeqMax(s) == CHOOSE m \in {s[i] : i \in 1..Len(s)} : \A i \in 1..Len(s) : s[i] <= m
SeqMin(s) == CHOOSE m \in {s[i] : i \in 1..Len(s)} : \A i \in 1..Len(s) : m <= s[i]

\* floor(sqrt(n)) by bisection on lo..hi, lo*lo <= n < (hi+1)*(hi+1)
RECURSIVE ISqrtIn(_, _, _)
ISqrtIn(n, lo, hi) ==
    IF lo = hi THEN lo
    ELSE LET mid == (lo + hi + 1) \div 2
         IN IF mid * mid <= n THEN ISqrtIn(n, mid, hi) ELSE ISqrtIn(n, lo, mid - 1)

ISqrt(n) == ISqrtIn(n, 0, 46340)

\* np.mean(xs): sum / n
Mean(xs) == Rat(SeqSum(xs), Len(xs))
\* the sample variance (ddof = 1): sum((x - mean)^2) / (n - 1)
Var_Sample(xs) ==
    IF Len(xs) < 2 THEN <<0, 1>>
    ELSE Rat(Len(xs) * SeqSumSq(xs) - SeqSum(xs) * SeqSum(xs), Len(xs) * (Len(xs) - 1))

\* np.var(xs) (ddof = 0): sum((x - mean)^2) / n = (n * sum(x^2) - sum(x)^2) / n^2
Var(xs) == Rat(Len(xs) * SeqSumSq(xs) - SeqSum(xs) * SeqSum(xs), Len(xs) * Len(xs))
\* the largest b in lo..hi with (a + b/100)^2 <= v, a = floor(sqrt(v)), by bisection
RECURSIVE StdHundredths(_, _, _, _)
StdHundredths(v, a, lo, hi) ==
    IF lo = hi THEN lo
    ELSE LET mid == (lo + hi + 1) \div 2
         IN IF (200 * a * mid + mid * mid) * v[2] <= 10000 * (v[1] - a * a * v[2])
            THEN StdHundredths(v, a, mid, hi) ELSE StdHundredths(v, a, lo, mid - 1)

\* np.std(xs) (ddof = 0): sqrt(var), rounded down to 1/100
Std(xs) ==
    LET v == Var(xs)
        a == ISqrt(v[1] \div v[2])
    IN Rat(100 * a + StdHundredths(v, a, 0, 99), 100)

(***************************************************************************)
(* FlowState (flow_aggregator.py)                                          *)
(***************************************************************************)
\* a FlowState that starts at the epoch whatever the first packet's timestamp
NewFlowState_Epoch(ts) ==
    [first_ts |-> <<0, 1>>, last_ts |-> <<0, 1>>, pkts |-> 0, total_bytes |-> 0,
     packet_sizes |-> <<>>, inter_arrivals |-> <<>>, last_pkt_ts |-> <<0, 1>>,
     tcp_flags |-> [n \in {} |-> 0]]

\* FlowState.__init__(first_ts)
NewFlowState(ts) ==
    [first_ts |-> ts, last_ts |-> ts, pkts |-> 0, total_bytes |-> 0,
     packet_sizes |-> <<>>, inter_arrivals |-> <<>>, last_pkt_ts |-> ts,
     tcp_flags |-> [n \in {} |-> 0]]

\* self.tcp_flags[name] += 1 on a defaultdict(int)
IncFlag(f, name) ==
    IF name \in DOMAIN f THEN [f EXCEPT ![name] = @ + 1]
    ELSE [n \in DOMAIN f \cup {name} |-> IF n = name THEN 1 ELSE f[n]]

IncFlagIf(f, cond, name) == IF cond THEN IncFlag(f, name) ELSE f

\* the flag block of FlowState.add_packet: one counter per bit that is set
CountFlags(f, flags_int) ==
    LET f1 == IncFlagIf(f, BitSet(flags_int, 2), "SYN")
        f2 == IncFlagIf(f1, BitSet(flags_int, 8), "PSH")
        f3 == IncFlagIf(f2, BitSet(flags_int, 32), "URG")
        f4 == IncFlagIf(f3, BitSet(flags_int, 1), "FIN")
        f5 == IncFlagIf(f4, BitSet(flags_int, 4), "RST")
    IN IncFlagIf(f5, BitSet(flags_int, 16), "ACK")

\* an add_packet that records an inter-arrival sample for the first packet too
FlowStateAddPacket_FirstGap(st, pkt_len, ts, tcp_flags_raw) ==
    LET flags == ParseIntBase0(tcp_flags_raw)
    IN [st EXCEPT
          !.pkts = @ + 1,
          !.total_bytes = @ + pkt_len,
          !.packet_sizes = Append(@, pkt_len),
          !.inter_arrivals = Append(@, RatSub(ts, st.last_pkt_ts)),
          !.last_pkt_ts = ts,
          !.last_ts = ts,
          !.tcp_flags = IF tcp_flags_raw # <<>> /\ flags.ok
                        THEN CountFlags(@, flags.val) ELSE @]

\* FlowState.add_packet(pkt_len, ts, tcp_flags_raw); ts is a float; tcp_flags_raw None is
\* passed as the empty string (only its truthiness is read)
FlowStateAddPacket(st, pkt_len, ts, tcp_flags_raw) ==
    LET flags == ParseIntBase0(tcp_flags_raw)
    IN [st EXCEPT
          !.pkts = @ + 1,
          !.total_bytes = @ + pkt_len,
          !.packet_sizes = Append(@, pkt_len),
          !.inter_arrivals = IF st.pkts + 1 > 1 THEN Append(@, RatSub(ts, st.last_pkt_ts)) ELSE @,
          !.last_pkt_ts = ts,
          !.last_ts = ts,
          !.tcp_flags = IF tcp_flags_raw # <<>> /\ flags.ok
                        THEN CountFlags(@, flags.val) ELSE @]

\* the masks and counters of lines 44-55, in the order they are tested
FlagOrder ==
    << <<2, "SYN">>, <<8, "PSH">>, <<32, "URG">>, <<1, "FIN">>, <<4, "RST">>, <<16, "ACK">> >>

\* self.tcp_flags[name] read on a defaultdict(int): a missing counter is entered as 0
TouchFlag(f, name) ==
    IF name \in DOMAIN f THEN f
    ELSE [n \in DOMAIN f \cup {name} |-> IF n = name THEN 0 ELSE f[n]]

\* the counters at every point of the flag block from its i-th test on: before a
\* test, between the read and the store of a += 1, and after the last test
RECURSIVE CountFlagsPartial(_, _, _)
CountFlagsPartial(f, flags_int, i) ==
    IF i > Len(FlagOrder) THEN {f}
    ELSE IF BitSet(flags_int, FlagOrder[i][1])
         THEN {f, TouchFlag(f, FlagOrder[i][2])}
              \cup CountFlagsPartial(IncFlag(f, FlagOrder[i][2]), flags_int, i + 1)
    ELSE CountFlagsPartial(f, flags_int, i + 1)

\* the FlowState at every point of FlowState.add_packet where an exception raised
\* from outside (KeyboardInterrupt) can cut it short: on entry, after each
\* assignment of lines 33-39, inside the flag block, and when it is complete
FlowStateAddPacketPartial(st, pkt_len, ts, tcp_flags_raw) ==
    LET flags == ParseIntBase0(tcp_flags_raw)
        s1 == [st EXCEPT !.pkts = @ + 1]
        s2 == [s1 EXCEPT !.total_bytes = @ + pkt_len]
        s3 == [s2 EXCEPT !.packet_sizes = Append(@, pkt_len)]
        s4 == IF s3.pkts > 1
              THEN [s3 EXCEPT !.inter_arrivals = Append(@, RatSub(ts, st.last_pkt_ts))]
              ELSE s3
        s5 == [s4 EXCEPT !.last_pkt_ts = ts]
        s6 == [s5 EXCEPT !.last_ts = ts]
    IN {st, s1, s2, s3, s4, s5, s6}
       \cup (IF tcp_flags_raw # <<>> /\ flags.ok
             THEN {[s6 EXCEPT !.tcp_flags = f] : f \in CountFlagsPartial(s6.tcp_flags, flags.val, 1)}
             ELSE {})

\* FlowState.summarize()
Summarize(st) ==
    LET has == st.packet_sizes # <<>>
    IN [duration |-> RatMax(<<1, 1000000>>, RatSub(st.last_ts, st.first_ts)),
        pkts |-> st.pkts,
        total_bytes |-> st.total_bytes,
        avg_pkt_size |-> IF has THEN Rat(SeqSum(st.packet_sizes), Len(st.packet_sizes))
                         ELSE <<0, 1>>,
        pkt_std |-> IF has THEN Std(st.packet_sizes) ELSE <<0, 1>>,
        pkt_mean |-> IF has THEN Mean(st.packet_sizes) ELSE <<0, 1>>,
        pkt_var |-> IF has THEN Var(st.packet_sizes) ELSE <<0, 1>>,
        avg_inter |-> IF st.inter_arrivals # <<>> THEN RatMean(st.inter_arrivals)
                      ELSE <<0, 1>>,
        max_pkt |-> IF has THEN SeqMax(st.packet_sizes) ELSE 0,
        min_pkt |-> IF has THEN SeqMin(st.packet_sizes) ELSE 0,
        tcp_flags |-> st.tcp_flags]

\* an inactivity test that already fires when the timeout is just reached
IsInactive_AtTimeout(st, now, tmo) ==
    RatGE(RatSub(RatOfInt(now), st.last_ts), RatOfInt(tmo))

\* FlowState.is_inactive(now, timeout)
IsInactive(st, now, tmo) ==
    RatLT(RatOfInt(tmo), RatSub(RatOfInt(now), st.last_ts))

(***************************************************************************)
(* FlowAggregator (flow_aggregator.py); self.flows is a dict, modelled as  *)
(* the sequence of its <<key, FlowState>> items in insertion order.        *)
(***************************************************************************)
\* a normalization that orders the endpoints by address alone
NormalizeKey_AddrOnly(src, dst, srcp, dstp, proto) ==
    IF src = dst \/ StrLT(src, dst) THEN <<src, dst, srcp, dstp, proto>>
    ELSE <<dst, src, dstp, srcp, proto>>

\* FlowAggregator._normalize_key
NormalizeKey(src, dst, srcp, dstp, proto) ==
    IF PairLE(src, srcp, dst, dstp) THEN <<src, dst, srcp, dstp, proto>>
    ELSE <<dst, src, dstp, srcp, proto>>

Keys(fl) == {fl[i][1] : i \in 1..Len(fl)}
IndexOf(fl, key) == CHOOSE i \in 1..Len(fl) : fl[i][1] = key
Lookup(fl, key) == fl[IndexOf(fl, key)][2]

\* a or b on strings
StrOr(a, b) == IF a # <<>> THEN a ELSE b

\* the 5-tuple add_packet looks a record up under
PacketKey(pkt) ==
    NormalizeKey(pkt[2], pkt[3],
                 StrOr(StrOr(pkt[4], pkt[6]), <<48>>),
                 StrOr(StrOr(pkt[5], pkt[7]), <<48>>), pkt[8])

\* an add_packet that a record without a parsable length aborts
AggAddPacket_Strict(fl, pkt, now) ==
    LET tsp == ParseFloat(pkt[1])
        ts == IF pkt[1] # <<>> /\ tsp.ok THEN tsp.val ELSE RatOfInt(now)
        lenp == ParseInt(pkt[9])
        tcp_flags == IF Len(pkt) > 9 THEN pkt[10] ELSE <<>>
        key == PacketKey(pkt)
        fl1 == IF key \notin Keys(fl) THEN Append(fl, <<key, NewFlowState(ts)>>) ELSE fl
        i == IndexOf(fl1, key)
    IN IF ~lenp.ok THEN fl
       ELSE [fl1 EXCEPT ![i] = <<key, FlowStateAddPacket(fl1[i][2], lenp.val, ts, tcp_flags)>>]

\* FlowAggregator.add_packet(pkt_tuple); now is what time.time() returns if read
AggAddPacket(fl, pkt, now) ==
    LET tsp == ParseFloat(pkt[1])
        ts == IF pkt[1] # <<>> /\ tsp.ok THEN tsp.val ELSE RatOfInt(now)
        lenp == ParseInt(pkt[9])
        flen == IF pkt[9] # <<>> /\ lenp.ok THEN lenp.val ELSE 0
        tcp_flags == IF Len(pkt) > 9 THEN pkt[10] ELSE <<>>
        key == PacketKey(pkt)
        fl1 == IF key \notin Keys(fl) THEN Append(fl, <<key, NewFlowState(ts)>>) ELSE fl
        i == IndexOf(fl1, key)
    IN [fl1 EXCEPT ![i] = <<key, FlowStateAddPacket(fl1[i][2], flen, ts, tcp_flags)>>]

\* the table at every point of FlowAggregator.add_packet where a
\* KeyboardInterrupt can cut it short: untouched, with the new FlowState entered
\* but no packet in it (line 130 done, line 131 not), and with the FlowState at
\* every point of its add_packet (the complete add included)
AggAddPacketPartial(fl, pkt, now) ==
    LET tsp == ParseFloat(pkt[1])
        ts == IF pkt[1] # <<>> /\ tsp.ok THEN tsp.val ELSE RatOfInt(now)
        lenp == ParseInt(pkt[9])
        flen == IF pkt[9] # <<>> /\ lenp.ok THEN lenp.val ELSE 0
        tcp_flags == IF Len(pkt) > 9 THEN pkt[10] ELSE <<>>
        key == PacketKey(pkt)
        fl1 == IF key \notin Keys(fl) THEN Append(fl, <<key, NewFlowState(ts)>>) ELSE fl
        i == IndexOf(fl1, key)
    IN {fl} \cup {[fl1 EXCEPT ![i] = <<key, st>>] :
                     st \in FlowStateAddPacketPartial(fl1[i][2], flen, ts, tcp_flags)}

\* whether add_packet reads time.time()
ReadsClock(pkt) == pkt[1] = <<>> \/ ~ParseFloat(pkt[1]).ok

\* FlowAggregator.summarize_active_flows()
SummarizeActiveFlows(fl) == [i \in 1..Len(fl) |-> <<fl[i][1], Summarize(fl[i][2])>>]

RECURSIVE SelectFlows(_, _, _, _)
SelectFlows(fl, now, tmo, inactive) ==
    IF fl = <<>> THEN <<>>
    ELSE LET rest == SelectFlows(Tail(fl), now, tmo, inactive)
         IN IF IsInactive(Head(fl)[2], now, tmo) = inactive
            THEN <<Head(fl)>> \o rest ELSE rest

\* FlowAggregator.collect_inactive_flows(): the returned list and the table left
CollectInactiveResult(fl, now, tmo) == SummarizeActiveFlows(SelectFlows(fl, now, tmo, TRUE))
\* an eviction that returns the inactive flows but keeps them in the table
CollectInactiveFlows_Keep(fl, now, tmo) == fl
CollectInactiveFlows(fl, now, tmo) == SelectFlows(fl, now, tmo, FALSE)

\* fl without the first j of its inactive flows
RECURSIVE DropExpired(_, _, _, _)
DropExpired(fl, now, tmo, j) ==
    IF fl = <<>> \/ j = 0 THEN fl
    ELSE IF IsInactive(Head(fl)[2], now, tmo) THEN DropExpired(Tail(fl), now, tmo, j - 1)
    ELSE <<Head(fl)>> \o DropExpired(Tail(fl), now, tmo, j)

\* the table at every point of collect_inactive_flows where a KeyboardInterrupt
\* can cut it short: the loop of lines 148-149 has deleted none, some or all of
\* the expired flows, in the order of the table
CollectInactivePartial(fl, now, tmo) == {DropExpired(fl, now, tmo, j) : j \in 0..Len(fl)}

\* a flush that forgets to clear the table
FlushAll_Keep(fl) == fl

\* FlowAggregator.flush_all(): the returned list and the table left
FlushAllResult(fl) == SummarizeActiveFlows(fl)
FlushAll(fl) == <<>>

(***************************************************************************)
(* extract_features (feature_extractor.py)                                 *)
(***************************************************************************)
\* float(flow_summary.get(name, 0) or 0); the summary's integer fields are
\* min_pkt, max_pkt, pkts and total_bytes, its other numbers are floats
SummaryGet(summary, name) ==
    IF name \notin DOMAIN summary THEN <<0, 1>>
    ELSE IF name \in {"min_pkt", "max_pkt", "pkts", "total_bytes"}
         THEN RatOfInt(summary[name])
    ELSE summary[name]

\* extract_features(norm_key, flow_summary): the 20 values in SELECTED_FEATURES order
ExtractFeatures(key, summary) ==
    << SummaryGet(summary, "dest_port"),
       SummaryGet(summary, "fwd_pkt_max"),
       SummaryGet(summary, "fwd_pkt_mean"),
       SummaryGet(summary, "bwd_pkt_max"),
       SummaryGet(summary, "bwd_pkt_min"),
       SummaryGet(summary, "bwd_pkt_mean"),
       SummaryGet(summary, "bwd_pkt_std"),
       SummaryGet(summary, "fwd_iat_std"),
       SummaryGet(summary, "bwd_iat_total"),
       SummaryGet(summary, "bwd_iat_max"),
       SummaryGet(summary, "min_pkt"),
       SummaryGet(summary, "max_pkt"),
       SummaryGet(summary, "pkt_mean"),
       SummaryGet(summary, "pkt_std"),
       SummaryGet(summary, "pkt_var"),
       SummaryGet(summary, "psh_count"),
       SummaryGet(summary, "urg_count"),
       SummaryGet(summary, "avg_pkt_size"),
       SummaryGet(summary, "avg_fwd_seg"),
       SummaryGet(summary, "avg_bwd_seg") >>

(***************************************************************************)
(* Predictor.predict (predictor.py): the two loaded models are external;   *)
(* probas is the pair <<lr_proba, dt_proba>> they give for the vector.     *)
(***************************************************************************)
ProbaLabel(proba, thr) == IF RatGE(proba, thr) THEN 1 ELSE 0

Predict(probas, thr) ==
    [lr_proba |-> probas[1], lr_label |-> ProbaLabel(probas[1], thr),
     dt_proba |-> probas[2], dt_label |-> ProbaLabel(probas[2], thr)]

\* a majority vote of the two models, instead of the OR that run() takes
FinalLabel_Majority(res) ==
    IF res.lr_label = 1 /\ res.dt_label = 1 THEN "MALICIOUS" ELSE "BENIGN"

\* the final label run() derives from a prediction
FinalLabel(res) ==
    IF res.lr_label = 1 \/ res.dt_label = 1 THEN "MALICIOUS" ELSE "BENIGN"

(***************************************************************************)
(* XDPManager (xdp_filter_manager.py). x is the manager with the external  *)
(* filter it drives: x.is_loaded; x.cmds, the xdp-filter commands run so   *)
(* far; x.dropped, the addresses in the filter's drop list. out is what    *)
(* the external command answers: "ok", "already" (it fails saying the      *)
(* filter "is already loaded on" the interface) or "fail".                 *)
(***************************************************************************)
\* _execute_xdp_command: runs the command; success iff it exits 0
ExecuteXdpCommand(x, cmd, arg, out) ==
    [x EXCEPT !.cmds = Append(@, [cmd |-> cmd, arg |-> arg]),
              !.dropped = IF out # "ok" THEN @
                          ELSE IF cmd = "ip" THEN @ \cup {arg}
                          ELSE {}]

\* an initialize_xdp_filter that marks the manager loaded whatever the load answers
InitializeXdpFilter_AlwaysLoaded(x, out) ==
    [ExecuteXdpCommand(x, "load", <<>>, out) EXCEPT !.is_loaded = TRUE]

\* initialize_xdp_filter: the manager after the call, and the value returned
InitializeXdpFilter(x, out) ==
    LET x1 == ExecuteXdpCommand(x, "load", <<>>, out)
    IN IF out = "ok" THEN [x1 EXCEPT !.is_loaded = TRUE]
       ELSE IF out = "already" THEN [x1 EXCEPT !.is_loaded = TRUE]
       ELSE x1
InitializeXdpFilterRet(x, out) == out \in {"ok", "already"}

\* a block_ip that runs the command whatever is_loaded is
BlockIp_Always(x, ip, out) == ExecuteXdpCommand(x, "ip", ip, out)

\* block_ip(ip_address)
BlockIp(x, ip, out) ==
    IF ~x.is_loaded THEN x ELSE ExecuteXdpCommand(x, "ip", ip, out)
BlockIpRet(x, ip, out) == x.is_loaded /\ out = "ok"

\* an unload that marks the manager unloaded whatever the command answers
UnloadXdpFilter_AlwaysUnloaded(x, out) ==
    IF ~x.is_loaded THEN x
    ELSE [ExecuteXdpCommand(x, "unload", <<>>, out) EXCEPT !.is_loaded = FALSE]

\* unload_xdp_filter()
UnloadXdpFilter(x, out) ==
    IF ~x.is_loaded THEN x
    ELSE LET x1 == ExecuteXdpCommand(x, "unload", <<>>, out)
         IN IF out = "ok" THEN [x1 EXCEPT !.is_loaded = FALSE] ELSE x1
UnloadXdpFilterRet(x, out) == ~x.is_loaded \/ out = "ok"

(***************************************************************************)
(* Inputs: packet records as stream_packets yields them, tuples of the     *)
(* strings (frame.time_epoch, ip.src, ip.dst, tcp.srcport, tcp.dstport,    *)
(* udp.srcport, udp.dstport, ip.proto, frame.len, tcp.flags).              *)
(***************************************************************************)
\* "1.2.3.4", "9.9.9.9", "5.5.5.5"
IpA == <<49, 46, 50, 46, 51, 46, 52>>
IpB == <<57, 46, 57, 46, 57, 46, 57>>
IpC == <<53, 46, 53, 46, 53, 46, 53>>

\* TCP 1.2.3.4:5000 -> 9.9.9.9:80, SYN
\* ('0', '1.2.3.4', '9.9.9.9', '5000', '80', '', '', '6', '64', '0x0002')
PktA1 ==
    << <<48>>,
       <<49, 46, 50, 46, 51, 46, 52>>,
       <<57, 46, 57, 46, 57, 46, 57>>,
       <<53, 48, 48, 48>>,
       <<56, 48>>,
       <<>>,
       <<>>,
       <<54>>,
       <<54, 52>>,
       <<48, 120, 48, 48, 48, 50>> >>

\* same flow and direction, PSH+ACK
\* ('1', '1.2.3.4', '9.9.9.9', '5000', '80', '', '', '6', '128', '0x0018')
PktA2 ==
    << <<49>>,
       <<49, 46, 50, 46, 51, 46, 52>>,
       <<57, 46, 57, 46, 57, 46, 57>>,
       <<53, 48, 48, 48>>,
       <<56, 48>>,
       <<>>,
       <<>>,
       <<54>>,
       <<49, 50, 56>>,
       <<48, 120, 48, 48, 49, 56>> >>

\* same flow and direction, URG+ACK
\* ('2', '1.2.3.4', '9.9.9.9', '5000', '80', '', '', '6', '256', '0x0030')
PktA3 ==
    << <<50>>,
       <<49, 46, 50, 46, 51, 46, 52>>,
       <<57, 46, 57, 46, 57, 46, 57>>,
       <<53, 48, 48, 48>>,
       <<56, 48>>,
       <<>>,
       <<>>,
       <<54>>,
       <<50, 53, 54>>,
       <<48, 120, 48, 48, 51, 48>> >>

\* the reply direction of the same flow, SYN+ACK
\* ('1', '9.9.9.9', '1.2.3.4', '80', '5000', '', '', '6', '128', '0x0012')
PktA4 ==
    << <<49>>,
       <<57, 46, 57, 46, 57, 46, 57>>,
       <<49, 46, 50, 46, 51, 46, 52>>,
       <<56, 48>>,
       <<53, 48, 48, 48>>,
       <<>>,
       <<>>,
       <<54>>,
       <<49, 50, 56>>,
       <<48, 120, 48, 48, 49, 50>> >>

\* UDP 9.9.9.9:53 -> 1.2.3.4:4000: the sender sorts second
\* ('1.5', '9.9.9.9', '1.2.3.4', '', '', '53', '4000', '17', '100', '')
PktB1 ==
    << <<49, 46, 53>>,
       <<57, 46, 57, 46, 57, 46, 57>>,
       <<49, 46, 50, 46, 51, 46, 52>>,
       <<>>,
       <<>>,
       <<53, 51>>,
       <<52, 48, 48, 48>>,
       <<49, 55>>,
       <<49, 48, 48>>,
       <<>> >>

\* a malformed record: no timestamp, no ports, bad length and flags
\* ('', '5.5.5.5', '5.5.5.5', '', '', '', '', '', 'x', 'zz')
PktM1 ==
    << <<>>,
       <<53, 46, 53, 46, 53, 46, 53>>,
       <<53, 46, 53, 46, 53, 46, 53>>,
       <<>>,
       <<>>,
       <<>>,
       <<>>,
       <<>>,
       <<120>>,
       <<122, 122>> >>

\* UDP 5.5.5.5:9 -> 5.5.5.5:7 (equal addresses: the ports decide the order)
\* ('5', '5.5.5.5', '5.5.5.5', '', '', '9', '7', '17', '100', '')
PktC1 ==
    << <<53>>,
       <<53, 46, 53, 46, 53, 46, 53>>,
       <<53, 46, 53, 46, 53, 46, 53>>,
       <<>>,
       <<>>,
       <<57>>,
       <<55>>,
       <<49, 55>>,
       <<49, 48, 48>>,
       <<>> >>

\* its reply direction, at the same timestamp
\* ('5', '5.5.5.5', '5.5.5.5', '', '', '7', '9', '17', '200', '')
PktC2 ==
    << <<53>>,
       <<53, 46, 53, 46, 53, 46, 53>>,
       <<53, 46, 53, 46, 53, 46, 53>>,
       <<>>,
       <<>>,
       <<55>>,
       <<57>>,
       <<49, 55>>,
       <<50, 48, 48>>,
       <<>> >>

\* the first direction again, with an earlier timestamp
\* ('3', '5.5.5.5', '5.5.5.5', '', '', '9', '7', '17', '300', '')
PktC3 ==
    << <<51>>,
       <<53, 46, 53, 46, 53, 46, 53>>,
       <<53, 46, 53, 46, 53, 46, 53>>,
       <<>>,
       <<>>,
       <<57>>,
       <<55>>,
       <<49, 55>>,
       <<51, 48, 48>>,
       <<>> >>

\* the first direction once more: a negative length and all-ones flags
\* ('1.5', '5.5.5.5', '5.5.5.5', '', '', '9', '7', '17', '-5', '-1')
PktC4 ==
    << <<49, 46, 53>>,
       <<53, 46, 53, 46, 53, 46, 53>>,
       <<53, 46, 53, 46, 53, 46, 53>>,
       <<>>,
       <<>>,
       <<57>>,
       <<55>>,
       <<49, 55>>,
       <<45, 53>>,
       <<45, 49>> >>

\* the reply direction with a timestamp that is not a number, a padded length
\* and octal flags (SYN+ACK)
\* ('nan', '5.5.5.5', '5.5.5.5', '', '', '7', '9', '17', ' 7', '0o22')
PktC5 ==
    << <<110, 97, 110>>,
       <<53, 46, 53, 46, 53, 46, 53>>,
       <<53, 46, 53, 46, 53, 46, 53>>,
       <<>>,
       <<>>,
       <<55>>,
       <<57>>,
       <<49, 55>>,
       <<32, 55>>,
       <<48, 111, 50, 50>> >>

\* the records the capture may yield to run()
RunPackets == {PktA1, PktA4, PktB1, PktM1}
\* the records add_packet is called with when the aggregator is driven directly
AggPackets ==
    {PktA1, PktA2, PktA3, PktA4, PktB1, PktM1, PktC1, PktC2, PktC3, PktC4, PktC5}
\* the addresses block_ip is called with when the manager is driven directly
BlockAddrs == {IpA, IpB}

\* the values time.time() takes (whole seconds)
ClockValues == {2, 31, 32}
RunClock == {2, 33}
\* the flow timeout of run() (the --timeout default)
RunTimeout == 30
\* the probability threshold of run(), 0.5
RunThreshold == <<1, 2>>

\* what the two loaded models may answer for a feature vector: the pair
\* <<lr_proba, dt_proba>>, or an exception raised by predict()
ProbaPairs ==
    { << <<1, 10>>, <<1, 10>> >>, << <<9, 10>>, <<1, 10>> >>,
      << <<1, 10>>, <<1, 2>> >>, << <<9, 10>>, <<9, 10>> >> }
Answers(p) == [raises |-> FALSE, probas |-> p]
Raises == [raises |-> TRUE, probas |-> << <<0, 1>>, <<0, 1>> >>]
ClassifierOutcomes == {Answers(p) : p \in ProbaPairs} \cup {Raises}

\* The loaded models, as deterministic functions of the feature vector: a model
\* pair answers c.below for a vector whose Max Packet Length is under c.cut and
\* c.above for the others (cut 0: the same answer for every vector).
Classifiers ==
    {[cut |-> 0, below |-> o, above |-> o] : o \in ClassifierOutcomes}
    \cup {[cut |-> 100, below |-> Answers(<< <<1, 10>>, <<1, 10>> >>),
                        above |-> Answers(<< <<9, 10>>, <<1, 10>> >>)],
          [cut |-> 100, below |-> Answers(<< <<1, 10>>, <<1, 2>> >>), above |-> Raises],
          [cut |-> 100, below |-> Raises, above |-> Answers(<< <<1, 10>>, <<1, 10>> >>)]}

\* what the models answer for fv (model.predict_proba inside Predictor.predict)
ClassifierOutcome(c, fv) == IF RatLT(fv[12], RatOfInt(c.cut)) THEN c.below ELSE c.above

\* what an xdp-filter command may answer
LoadOutcomes == {"ok", "already", "fail"}
CmdOutcomes == {"ok", "fail"}

\* the number of records the capture yields before it ends
MaxPkts == 3
\* the number of calls made when a class is driven directly
MaxCalls == 4

(***************************************************************************)
(* State                                                                   *)
(***************************************************************************)
VARIABLES
    pc,         \* where run() is; "agg" / "xdp" when the classes are driven directly
    flows,      \* FlowAggregator.flows
    timeout,    \* FlowAggregator.timeout
    threshold,  \* the threshold argument of run()
    clock,      \* the last value time.time() returned
    xdp,        \* the XDPManager and the xdp-filter commands it has run
    api,        \* the XDPManager methods (or runner functions) called so far
    xdp_ret,    \* what the last XDPManager method call returned
    clf,        \* the loaded models
    rows,       \* the rows written to the prediction log
    pending,    \* the list of (key, summary) the current for loop still has to visit
    exc,        \* the exception run() is ending with, "none" if none
    npkts,      \* records yielded by the capture so far
    last_call,  \* the last FlowAggregator method called, its argument and its result
    ncalls      \* calls made when the classes are driven directly

vars == <<pc, flows, timeout, threshold, clock, xdp, api, xdp_ret, clf, rows, pending, exc,
          npkts, last_call, ncalls>>

NoCall == [op |-> "none", arg |-> <<>>, val |-> <<>>, prev |-> "none"]

InitCommon ==
    /\ flows = <<>>
    /\ clock = 2
    /\ xdp = [is_loaded |-> FALSE, cmds |-> <<>>, dropped |-> {}]
    /\ api = <<>>
    /\ xdp_ret = TRUE
    /\ rows = <<>>
    /\ pending = <<>>
    /\ npkts = 0
    /\ last_call = NoCall
    /\ ncalls = 0

(***************************************************************************)
(* run() (main.py)                                                         *)
(***************************************************************************)
Init ==
    /\ pc = "start"
    /\ timeout = RunTimeout
    /\ threshold = RunThreshold
    /\ clf \in Classifiers
    /\ exc = "none"
    /\ InitCommon

ApiCall(op, arg) == [op |-> op, arg |-> arg]

\* models looked for only once the filter is loaded
LoadModels_Late ==
    /\ \/ pc = "start" /\ pc' = "init_xdp" /\ exc' = exc
       \/ pc = "open_log" /\ pc' = "done" /\ exc' = "FileNotFoundError: model files"
    /\ UNCHANGED <<flows, timeout, threshold, clock, xdp, api, xdp_ret, clf, rows, pending,
                   npkts, last_call, ncalls>>

\* lines 16-18: FlowAggregator(timeout), Predictor(models_dir); a missing model
\* file raises FileNotFoundError("Required model files not found ...") out of run()
LoadModels ==
    /\ pc = "start"
    /\ \/ pc' = "init_xdp" /\ exc' = exc
       \/ pc' = "done" /\ exc' = "FileNotFoundError: model files"
    /\ UNCHANGED <<flows, timeout, threshold, clock, xdp, api, xdp_ret, clf, rows, pending,
                   npkts, last_call, ncalls>>

\* lines 21-24: XDPManager(iface), whose constructor ends run() with SystemExit
\* when the process is not root, then initialize_xdp_filter(); a failure is only
\* printed
InitXdp ==
    /\ pc = "init_xdp"
    /\ \/ /\ pc' = "done"
          /\ exc' = "SystemExit"
          /\ UNCHANGED <<xdp, api, xdp_ret>>
       \/ /\ \E out \in LoadOutcomes :
                /\ xdp' = InitializeXdpFilter(xdp, out)
                /\ xdp_ret' = InitializeXdpFilterRet(xdp, out)
          /\ api' = Append(api, ApiCall("initialize_xdp_filter", <<>>))
          /\ pc' = "open_log"
          /\ exc' = exc
    /\ UNCHANGED <<flows, timeout, threshold, clock, clf, rows, pending,
                   npkts, last_call, ncalls>>

\* lines 28-56: the log file is opened, before the try block
OpenLog ==
    /\ pc = "open_log"
    /\ \/ pc' = "loop" /\ exc' = exc
       \/ pc' = "done" /\ exc' = "OSError"
    /\ UNCHANGED <<flows, timeout, threshold, clock, xdp, api, xdp_ret, clf, rows, pending,
                   npkts, last_call, ncalls>>

\* lines 59-63: the capture yields a record; add_packet, then the list of
\* summarize_active_flows() to visit
NextPacket ==
    /\ pc = "loop"
    /\ npkts < MaxPkts
    /\ \E pkt \in RunPackets :
       \E now \in {t \in RunClock : t >= clock} :
          /\ ReadsClock(pkt) \/ now = clock
          /\ flows' = AggAddPacket(flows, pkt, now)
          /\ clock' = now
    /\ pending' = SummarizeActiveFlows(flows')
    /\ npkts' = npkts + 1
    /\ pc' = "eval"
    /\ UNCHANGED <<timeout, threshold, xdp, api, xdp_ret, clf, rows, exc, last_call, ncalls>>

\* line 59: the capture raises into the for statement, which no handler of
\* run() catches, so run() leaves through finally: at the first next() when
\* tshark cannot be started (Popen, tshark_runner.py line 59), and at the end of
\* the capture when tshark does not end within the 2 seconds of proc.wait
\* (tshark_runner.py lines 71-74)
CaptureRaises ==
    /\ pc = "loop"
    /\ \/ npkts = 0 /\ exc' = "FileNotFoundError: tshark"
       \/ exc' = "TimeoutExpired"
    /\ pc' = "finally"
    /\ UNCHANGED <<flows, timeout, threshold, clock, xdp, api, xdp_ret, clf, rows, pending,
                   npkts, last_call, ncalls>>

\* the row lines 84-106 (124-142, 159-177) write
LogRow(key, fv, res, label) == [key |-> key, fv |-> fv, res |-> res, label |-> label]

\* the address lines 67-77 hand to block_ip for a flow
BlockTarget(key) == key[1]

\* lines 64-107, 114-144 and 149-179: one flow of the list is classified, blocked
\* if malicious and logged; an exception of predict() leaves the try block
EvalFlow ==
    /\ pc \in {"eval", "flush", "int_flush"}
    /\ pending # <<>>
    /\ LET key == Head(pending)[1]
           fv == ExtractFeatures(key, Head(pending)[2])
           o == ClassifierOutcome(clf, fv)
       IN /\ IF o.raises
             THEN /\ pc' = "finally"
                  /\ exc' = "Exception"
                  /\ UNCHANGED <<xdp, api, xdp_ret, rows, pending>>
             ELSE LET res == Predict(o.probas, threshold)
                      label == FinalLabel(res)
                  IN /\ IF label = "MALICIOUS"
                        THEN \E out \in CmdOutcomes :
                               /\ xdp' = BlockIp(xdp, BlockTarget(key), out)
                               /\ api' = Append(api, ApiCall("block_ip", BlockTarget(key)))
                               /\ xdp_ret' = BlockIpRet(xdp, BlockTarget(key), out)
                        ELSE UNCHANGED <<xdp, api, xdp_ret>>
                     /\ rows' = Append(rows, LogRow(key, fv, res, label))
                     /\ pending' = Tail(pending)
                     /\ UNCHANGED <<pc, exc>>
    /\ UNCHANGED <<flows, timeout, threshold, clock, clf, npkts, last_call, ncalls>>

\* line 109: agg.collect_inactive_flows(); what it returns is dropped
CollectInactive ==
    /\ pc = "eval"
    /\ pending = <<>>
    /\ \E now \in {t \in RunClock : t >= clock} :
          /\ flows' = CollectInactiveFlows(flows, now, timeout)
          /\ clock' = now
    /\ pc' = "loop"
    /\ UNCHANGED <<timeout, threshold, xdp, api, xdp_ret, clf, rows, pending, exc, npkts,
                   last_call, ncalls>>

\* lines 111-113: the capture ends; flush_all() gives the list to finalize
EndCapture ==
    /\ pc = "loop"
    /\ pending' = FlushAllResult(flows)
    /\ flows' = FlushAll(flows)
    /\ pc' = "flush"
    /\ UNCHANGED <<timeout, threshold, clock, xdp, api, xdp_ret, clf, rows, exc, npkts,
                   last_call, ncalls>>

\* where a KeyboardInterrupt takes run(): in the try block into the handler of
\* lines 146-147; in the handler out through finally; before the try block and
\* in the finally block out of run()
Interrupted ==
    \/ /\ pc \in {"loop", "eval", "flush"}
       /\ pc' = "handler"
       /\ exc' = exc
    \/ /\ pc \in {"handler", "int_flush"}
       /\ pc' = "finally"
       /\ exc' = "KeyboardInterrupt"
    \/ /\ pc \in {"start", "init_xdp", "open_log", "finally"}
       /\ pc' = "done"
       /\ exc' = "KeyboardInterrupt"

\* line 148: the handler calls flush_all(), which gives the list to finalize
HandlerFlush ==
    /\ pc = "handler"
    /\ pending' = FlushAllResult(flows)
    /\ flows' = FlushAll(flows)
    /\ pc' = "int_flush"
    /\ UNCHANGED <<timeout, threshold, clock, xdp, api, xdp_ret, clf, rows, exc, npkts,
                   last_call, ncalls>>

\* whether evaluating the head of the list calls block_ip
HeadIsMalicious ==
    /\ pc \in {"eval", "flush", "int_flush"}
    /\ pending # <<>>
    /\ LET key == Head(pending)[1]
           o == ClassifierOutcome(clf, ExtractFeatures(key, Head(pending)[2]))
       IN ~o.raises /\ FinalLabel(Predict(o.probas, threshold)) = "MALICIOUS"

\* a KeyboardInterrupt inside a manager method of run(): initialize_xdp_filter
\* (line 22), block_ip for a malicious flow (lines 77, 122, 157) or
\* unload_xdp_filter (line 184). The method was called; the interrupt arrives
\* before its command is issued, while or after the command runs and before the
\* method sets is_loaded, after it has set is_loaded and before it returns, or
\* (block_ip, unload_xdp_filter) right after it has returned
InterruptInManager ==
    \/ /\ pc = "init_xdp"
       /\ api' = Append(api, ApiCall("initialize_xdp_filter", <<>>))
       /\ xdp_ret' = xdp_ret
       /\ \/ xdp' = xdp
          \/ \E out \in LoadOutcomes : xdp' = ExecuteXdpCommand(xdp, "load", <<>>, out)
          \/ \E out \in LoadOutcomes : xdp' = InitializeXdpFilter(xdp, out)
    \/ /\ HeadIsMalicious
       /\ api' = Append(api, ApiCall("block_ip", BlockTarget(Head(pending)[1])))
       /\ \/ xdp' = xdp /\ xdp_ret' = xdp_ret
          \/ /\ xdp.is_loaded
             /\ \E out \in CmdOutcomes :
                   xdp' = ExecuteXdpCommand(xdp, "ip", BlockTarget(Head(pending)[1]), out)
             /\ xdp_ret' = xdp_ret
          \/ \E out \in CmdOutcomes :
                /\ xdp' = BlockIp(xdp, BlockTarget(Head(pending)[1]), out)
                /\ xdp_ret' = BlockIpRet(xdp, BlockTarget(Head(pending)[1]), out)
    \/ /\ pc = "finally"
       /\ api' = Append(api, ApiCall("unload_xdp_filter", <<>>))
       /\ \/ xdp' = xdp /\ xdp_ret' = xdp_ret
          \/ /\ xdp.is_loaded
             /\ \E out \in CmdOutcomes : xdp' = ExecuteXdpCommand(xdp, "unload", <<>>, out)
             /\ xdp_ret' = xdp_ret
          \/ \E out \in CmdOutcomes : xdp' = UnloadXdpFilter(xdp, out) /\ xdp_ret' = xdp_ret
          \/ \E out \in CmdOutcomes :
                /\ xdp' = UnloadXdpFilter(xdp, out)
                /\ xdp_ret' = UnloadXdpFilterRet(xdp, out)

\* a KeyboardInterrupt inside an aggregator method of run(): in add_packet (line
\* 60) of a record the capture has yielded, in collect_inactive_flows (line 109),
\* or in flush_all (lines 113, 148) once the table is cleared and before the
\* list is returned
InterruptInAggregator ==
    \/ /\ pc = "loop"
       /\ npkts < MaxPkts
       /\ \E pkt \in RunPackets :
          \E now \in {t \in RunClock : t >= clock} :
             /\ ReadsClock(pkt) \/ now = clock
             /\ flows' \in AggAddPacketPartial(flows, pkt, now)
             /\ clock' = now
       /\ npkts' = npkts + 1
    \/ /\ pc = "eval"
       /\ pending = <<>>
       /\ \E now \in {t \in RunClock : t >= clock} :
             /\ flows' \in CollectInactivePartial(flows, now, timeout)
             /\ clock' = now
       /\ npkts' = npkts
    \/ /\ pc \in {"loop", "handler"}
       /\ flows' = FlushAll(flows)
       /\ UNCHANGED <<clock, npkts>>

\* a KeyboardInterrupt: between two steps of run(), inside a manager method or
\* inside an aggregator method
Interrupt ==
    /\ Interrupted
    /\ \/ UNCHANGED <<flows, clock, npkts, xdp, api, xdp_ret>>
       \/ InterruptInManager /\ UNCHANGED <<flows, clock, npkts>>
       \/ InterruptInAggregator /\ UNCHANGED <<xdp, api, xdp_ret>>
    /\ UNCHANGED <<timeout, threshold, clf, rows, pending, last_call, ncalls>>

\* the for loop of lines 113 / 148 is exhausted
FlushDone ==
    /\ pc \in {"flush", "int_flush"}
    /\ pending = <<>>
    /\ pc' = "finally"
    /\ UNCHANGED <<flows, timeout, threshold, clock, xdp, api, xdp_ret, clf, rows, pending, exc,
                   npkts, last_call, ncalls>>

\* a finally block out of which a failed unload raises
Finally_Raising ==
    /\ pc = "finally"
    /\ \E out \in CmdOutcomes :
          /\ xdp' = UnloadXdpFilter(xdp, out)
          /\ api' = Append(api, ApiCall("unload_xdp_filter", <<>>))
          /\ xdp_ret' = UnloadXdpFilterRet(xdp, out)
          /\ exc' = IF UnloadXdpFilterRet(xdp, out) THEN exc ELSE "CalledProcessError"
    /\ pc' = "done"
    /\ UNCHANGED <<flows, timeout, threshold, clock, clf, rows, pending, npkts,
                   last_call, ncalls>>

\* lines 181-185: the log is closed and the filter unloaded
Finally ==
    /\ pc = "finally"
    /\ \E out \in CmdOutcomes :
          /\ xdp' = UnloadXdpFilter(xdp, out)
          /\ api' = Append(api, ApiCall("unload_xdp_filter", <<>>))
          /\ xdp_ret' = UnloadXdpFilterRet(xdp, out)
    /\ pc' = "done"
    /\ UNCHANGED <<flows, timeout, threshold, clock, clf, rows, pending, exc, npkts,
                   last_call, ncalls>>

Next ==
    \/ LoadModels
    \/ InitXdp
    \/ OpenLog
    \/ NextPacket
    \/ CaptureRaises
    \/ EvalFlow
    \/ CollectInactive
    \/ EndCapture
    \/ Interrupt
    \/ HandlerFlush
    \/ FlushDone
    \/ Finally

Spec == Init /\ [][Next]_vars

(***************************************************************************)
(* The FlowAggregator driven directly: any sequence of its methods         *)
(***************************************************************************)
InitAgg ==
    /\ pc = "agg"
    /\ timeout = RunTimeout
    /\ threshold = RunThreshold
    /\ clf = [cut |-> 0, below |-> Raises, above |-> Raises]
    /\ exc = "none"
    /\ InitCommon

\* a call record: the method, its argument, its result, and the method called before it
Call(op, arg, val) == [op |-> op, arg |-> arg, val |-> val, prev |-> last_call.op]

\* agg.add_packet(pkt)
CallAddPacket ==
    /\ pc = "agg"
    /\ ncalls < MaxCalls
    /\ \E pkt \in AggPackets :
       \E now \in {t \in ClockValues : t >= clock} :
          /\ ReadsClock(pkt) \/ now = clock
          /\ flows' = AggAddPacket(flows, pkt, now)
          /\ clock' = now
          /\ last_call' = Call("add_packet", pkt, <<>>)
    /\ ncalls' = ncalls + 1
    /\ UNCHANGED <<pc, timeout, threshold, xdp, api, xdp_ret, clf, rows, pending, exc, npkts>>

\* a poll that drains the table it summarizes
CallSummarizeActive_Drain ==
    /\ pc = "agg"
    /\ ncalls < MaxCalls
    /\ last_call' = Call("summarize_active_flows", <<>>, SummarizeActiveFlows(flows))
    /\ flows' = <<>>
    /\ ncalls' = ncalls + 1
    /\ UNCHANGED <<pc, timeout, threshold, clock, xdp, api, xdp_ret, clf, rows,
                   pending, exc, npkts>>

\* agg.summarize_active_flows()
CallSummarizeActive ==
    /\ pc = "agg"
    /\ ncalls < MaxCalls
    /\ last_call' = Call("summarize_active_flows", <<>>, SummarizeActiveFlows(flows))
    /\ ncalls' = ncalls + 1
    /\ UNCHANGED <<pc, flows, timeout, threshold, clock, xdp, api, xdp_ret, clf, rows,
                   pending, exc, npkts>>

\* agg.collect_inactive_flows()
CallCollectInactive ==
    /\ pc = "agg"
    /\ ncalls < MaxCalls
    /\ \E now \in {t \in ClockValues : t >= clock} :
          /\ last_call' = Call("collect_inactive_flows", now,
                               CollectInactiveResult(flows, now, timeout))
          /\ flows' = CollectInactiveFlows(flows, now, timeout)
          /\ clock' = now
    /\ ncalls' = ncalls + 1
    /\ UNCHANGED <<pc, timeout, threshold, xdp, api, xdp_ret, clf, rows, pending, exc, npkts>>

\* agg.flush_all()
CallFlushAll ==
    /\ pc = "agg"
    /\ ncalls < MaxCalls
    /\ last_call' = Call("flush_all", <<>>, FlushAllResult(flows))
    /\ flows' = FlushAll(flows)
    /\ ncalls' = ncalls + 1
    /\ UNCHANGED <<pc, timeout, threshold, clock, xdp, api, xdp_ret, clf, rows, pending,
                   exc, npkts>>

NextAgg ==
    \/ CallAddPacket
    \/ CallSummarizeActive
    \/ CallCollectInactive
    \/ CallFlushAll

SpecAgg == InitAgg /\ [][NextAgg]_vars

(***************************************************************************)
(* The XDPManager driven directly: any sequence of its methods             *)
(***************************************************************************)
\* XDPManager(iface): the constructor ends the process with SystemExit when it
\* does not run as root
InitMgr ==
    /\ \/ pc = "xdp" /\ exc = "none"
       \/ pc = "done" /\ exc = "SystemExit"
    /\ timeout = RunTimeout
    /\ threshold = RunThreshold
    /\ clf = [cut |-> 0, below |-> Raises, above |-> Raises]
    /\ InitCommon

\* xdp_manager.initialize_xdp_filter()
CallInitialize ==
    /\ pc = "xdp"
    /\ ncalls < MaxCalls
    /\ \E out \in LoadOutcomes :
          /\ xdp' = InitializeXdpFilter(xdp, out)
          /\ xdp_ret' = InitializeXdpFilterRet(xdp, out)
    /\ api' = Append(api, ApiCall("initialize_xdp_filter", <<>>))
    /\ ncalls' = ncalls + 1
    /\ UNCHANGED <<pc, flows, timeout, threshold, clock, clf, rows, pending, exc, npkts,
                   last_call>>

\* xdp_manager.block_ip(ip)
CallBlockIp ==
    /\ pc = "xdp"
    /\ ncalls < MaxCalls
    /\ \E ip \in BlockAddrs :
       \E out \in CmdOutcomes :
          /\ xdp' = BlockIp(xdp, ip, out)
          /\ xdp_ret' = BlockIpRet(xdp, ip, out)
          /\ api' = Append(api, ApiCall("block_ip", ip))
    /\ ncalls' = ncalls + 1
    /\ UNCHANGED <<pc, flows, timeout, threshold, clock, clf, rows, pending, exc, npkts,
                   last_call>>

\* xdp_manager.unload_xdp_filter()
CallUnload ==
    /\ pc = "xdp"
    /\ ncalls < MaxCalls
    /\ \E out \in CmdOutcomes :
          /\ xdp' = UnloadXdpFilter(xdp, out)
          /\ xdp_ret' = UnloadXdpFilterRet(xdp, out)
    /\ api' = Append(api, ApiCall("unload_xdp_filter", <<>>))
    /\ ncalls' = ncalls + 1
    /\ UNCHANGED <<pc, flows, timeout, threshold, clock, clf, rows, pending, exc, npkts,
                   last_call>>

NextMgr ==
    \/ CallInitialize
    \/ CallBlockIp
    \/ CallUnload

SpecMgr == InitMgr /\ [][NextMgr]_vars

(***************************************************************************)
(* xdp_filter_runner.py: a stand-alone script that drives xdp-filter with  *)
(* module-level functions. It has no XDPManager and keeps no loaded flag   *)
(* (xdp.is_loaded is never read or set); run() never imports it.           *)
(***************************************************************************)
\* _execute_xdp_command of the script: runs the command; success iff it exits 0.
\* The commands are load, unload, status, "ip" (add to the drop list) and
\* "ip --remove" (take one address off the drop list)
RunnerExecuteXdpCommand(x, cmd, arg, out) ==
    [x EXCEPT !.cmds = Append(@, [cmd |-> cmd, arg |-> arg]),
              !.dropped = IF out # "ok" \/ cmd = "status" THEN @
                          ELSE IF cmd = "ip" THEN @ \cup {arg}
                          ELSE IF cmd = "ip --remove" THEN @ \ {arg}
                          ELSE {}]

\* initialize_xdp_filter() of the script: True when the load succeeds or says
\* the filter is already loaded
RunnerInitializeXdpFilter(x, out) == RunnerExecuteXdpCommand(x, "load", <<>>, out)
RunnerInitializeXdpFilterRet(x, out) == out \in {"ok", "already"}

\* block_ip(ip_address) of the script: no command for an empty address, else
\* the command is run whether or not a filter was loaded
RunnerBlockIp(x, ip, out) ==
    IF ip = <<>> THEN x ELSE RunnerExecuteXdpCommand(x, "ip", ip, out)
RunnerBlockIpRet(x, ip, out) == ip # <<>> /\ out = "ok"

\* unblock_ip(ip_address) of the script
RunnerUnblockIp(x, ip, out) ==
    IF ip = <<>> THEN x ELSE RunnerExecuteXdpCommand(x, "ip --remove", ip, out)
RunnerUnblockIpRet(x, ip, out) == ip # <<>> /\ out = "ok"

\* get_status() of the script
RunnerGetStatus(x, out) == RunnerExecuteXdpCommand(x, "status", <<>>, out)
RunnerGetStatusRet(x, out) == out = "ok"

\* the addresses the functions are called with, the empty string included
RunnerAddrs == {IpA, IpB, <<>>}

\* "192.168.1.100" and "203.0.113.50", the addresses of the script's main part
MaliciousIp1 == <<49, 57, 50, 46, 49, 54, 56, 46, 49, 46, 49, 48, 48>>
MaliciousIp2 == <<50, 48, 51, 46, 48, 46, 49, 49, 51, 46, 53, 48>>

\* the calls of the script's main part (lines 129-163), in order
RunnerMainCalls ==
    << ApiCall("initialize_xdp_filter", <<>>), ApiCall("block_ip", MaliciousIp1),
       ApiCall("block_ip", MaliciousIp2), ApiCall("get_status", <<>>),
       ApiCall("unblock_ip", MaliciousIp1), ApiCall("get_status", <<>>),
       ApiCall("_execute_xdp_command", <<>>) >>

\* pc = "runner": the functions are called in any order; pc = "main": the script
\* is run (lines 123-165), which exits at once when it is not run as root
InitRunner ==
    /\ \/ pc = "runner" /\ exc = "none"
       \/ pc = "main" /\ exc = "none"
       \/ pc = "done" /\ exc = "SystemExit"
    /\ timeout = RunTimeout
    /\ threshold = RunThreshold
    /\ clf = [cut |-> 0, below |-> Raises, above |-> Raises]
    /\ InitCommon

\* the function call c is made and the command it runs answers out
RunnerCall(c, out) ==
    /\ api' = Append(api, c)
    /\ ncalls' = ncalls + 1
    /\ CASE c.op = "initialize_xdp_filter" ->
               /\ out \in LoadOutcomes
               /\ xdp' = RunnerInitializeXdpFilter(xdp, out)
               /\ xdp_ret' = RunnerInitializeXdpFilterRet(xdp, out)
         [] c.op = "block_ip" ->
               /\ out \in CmdOutcomes
               /\ xdp' = RunnerBlockIp(xdp, c.arg, out)
               /\ xdp_ret' = RunnerBlockIpRet(xdp, c.arg, out)
         [] c.op = "unblock_ip" ->
               /\ out \in CmdOutcomes
               /\ xdp' = RunnerUnblockIp(xdp, c.arg, out)
               /\ xdp_ret' = RunnerUnblockIpRet(xdp, c.arg, out)
         [] c.op = "get_status" ->
               /\ out \in CmdOutcomes
               /\ xdp' = RunnerGetStatus(xdp, out)
               /\ xdp_ret' = RunnerGetStatusRet(xdp, out)
         [] c.op = "_execute_xdp_command" ->
               /\ out \in CmdOutcomes
               /\ xdp' = RunnerExecuteXdpCommand(xdp, "unload", <<>>, out)
               /\ xdp_ret' = (out = "ok")
    /\ UNCHANGED <<flows, timeout, threshold, clock, clf, rows, pending, npkts, last_call>>

\* one of the script's functions is called
RunnerFunction ==
    /\ pc = "runner"
    /\ ncalls < MaxCalls
    /\ \E c \in {ApiCall("initialize_xdp_filter", <<>>), ApiCall("get_status", <<>>)}
              \cup {ApiCall(op, ip) : op \in {"block_ip", "unblock_ip"}, ip \in RunnerAddrs} :
       \E out \in LoadOutcomes : RunnerCall(c, out)
    /\ UNCHANGED <<pc, exc>>

\* the next call of the script's main part; a failed initialization exits
RunnerMain ==
    /\ pc = "main"
    /\ \E out \in LoadOutcomes : RunnerCall(RunnerMainCalls[ncalls + 1], out)
    /\ IF ncalls = 0 /\ ~xdp_ret' THEN pc' = "done" /\ exc' = "SystemExit"
       ELSE IF ncalls + 1 = Len(RunnerMainCalls) THEN pc' = "done" /\ exc' = exc
       ELSE UNCHANGED <<pc, exc>>

NextRunner ==
    \/ RunnerFunction
    \/ RunnerMain

SpecRunner == InitRunner /\ [][NextRunner]_vars

\* the script can take one address off a drop list that holds two
RunnerUnblocks ==
    [][(pc = "main" /\ Len(api') = 5 /\ xdp_ret')
         => (MaliciousIp1 \notin xdp'.dropped /\ xdp'.dropped \subseteq {MaliciousIp2})]_vars

(***************************************************************************)
(* Properties                                                              *)
(***************************************************************************)
\* a step in which block_ip(ip) is called
BlockIpCalled(ip) == api' = Append(api, ApiCall("block_ip", ip))
\* the number of block_ip(ip) calls made so far
BlockIpCalls(ip) == Cardinality({i \in 1..Len(api) : api[i] = ApiCall("block_ip", ip)})
\* a step of the aggregator's method op
AggCalled(op) == ncalls' = ncalls + 1 /\ last_call'.op = op
\* the key of the flow 1.2.3.4:5000 <-> 9.9.9.9:80 and of the flow of PktB1
KeyA == PacketKey(PktA1)
KeyB == PacketKey(PktB1)
KeyC == PacketKey(PktC1)

\* C1: block_ip is idempotent: while the filter is loaded, a block_ip call for an
\* address that is already in the drop list runs no external command.
C1_BlockIdempotent ==
    [][\A ip \in BlockAddrs :
         (BlockIpCalled(ip) /\ xdp.is_loaded /\ ip \in xdp.dropped)
            => xdp'.cmds = xdp.cmds]_vars

\* C2: a run of three packets of the flow 1.2.3.4:5000 <-> 9.9.9.9:80 with models
\* that answer 0.9 for one model on every call ends with the flow labelled
\* MALICIOUS and exactly one block_ip("1.2.3.4") call made.
C2_OneBlockCall ==
    (/\ pc = "done" /\ exc = "none" /\ npkts = 3
     /\ clf = [cut |-> 0, below |-> Answers(<< <<9, 10>>, <<1, 10>> >>),
                          above |-> Answers(<< <<9, 10>>, <<1, 10>> >>)]
     /\ rows # <<>>
     /\ \A i \in 1..Len(rows) : rows[i].key = KeyA)
    => (rows[Len(rows)].label = "MALICIOUS" /\ BlockIpCalls(IpA) = 1)

\* the addresses that send packets of the flow key
Senders(key) == {p[2] : p \in {q \in RunPackets : PacketKey(q) = key}}

\* C3: the address handed to block_ip for a malicious flow is an address that
\* sent the flow's packets, never one that only received them.
C3_BlockTargetsSender ==
    [][\A ip \in {IpA, IpB, IpC} :
         (BlockIpCalled(ip) /\ pending # <<>>) => ip \in Senders(Head(pending)[1])]_vars

\* C4: every flow the per-packet eviction removes from the table gets a log row
\* for that eviction.
C4_EvictedFlowsLogged ==
    [][(pc = "eval" /\ pc' = "loop")
         => Len(rows') = Len(rows) + Cardinality(Keys(flows) \ Keys(flows'))]_vars

\* C5: initialize_xdp_filter called while the manager is already loaded reports
\* success and runs no further external load command.
C5_InitializeIdempotent ==
    [][(api' = Append(api, ApiCall("initialize_xdp_filter", <<>>)) /\ xdp.is_loaded)
         => (xdp_ret' = TRUE /\ xdp'.cmds = xdp.cmds)]_vars

\* C6: each evaluated flow's final label is MALICIOUS iff at least one of the two
\* model labels is 1, and block_ip is called for the flow iff the label is MALICIOUS.
C6_DecisionPolicy ==
    [][Len(rows') = Len(rows) + 1
         => LET r == rows'[Len(rows')]
            IN /\ r.label \in {"MALICIOUS", "BENIGN"}
               /\ r.label = "MALICIOUS" <=> (r.res.lr_label = 1 \/ r.res.dt_label = 1)
               /\ r.label = "MALICIOUS" <=> api' = Append(api, ApiCall("block_ip", r.key[1]))
               /\ r.label = "BENIGN" <=> api' = api]_vars

\* a flow was labelled MALICIOUS on the label of one model only, and blocked
C6_Witness ==
    \E i \in 1..Len(rows) :
       /\ rows[i].label = "MALICIOUS"
       /\ rows[i].res.lr_label = 0 /\ rows[i].res.dt_label = 1
       /\ BlockIpCalls(rows[i].key[1]) > 0

\* the record of the opposite direction: addresses and ports swapped
ReversePkt(p) == <<p[1], p[3], p[2], p[5], p[4], p[7], p[6], p[8], p[9], p[10]>>
SwapKey(k) == <<k[2], k[1], k[4], k[3], k[5]>>
PktsOf(fl, key) == IF key \in Keys(fl) THEN Lookup(fl, key).pkts ELSE 0

\* addresses and ports ("0", "7", "9", "80", "5000") to normalize
NormAddrs == {IpA, IpB, IpC}
NormPorts == {<<48>>, <<55>>, <<57>>, <<56, 48>>, <<53, 48, 48, 48>>}

\* C7: a record and the record of the opposite direction normalize to the same
\* key (for all the addresses and ports of NormAddrs and NormPorts, in both
\* orders), so add_packet counts either of them in the one table entry of that
\* key, and the table never holds both orientations of a conversation.
C7_DirectionInvariant ==
    [][/\ ncalls = 0
          => \A a, b \in NormAddrs : \A pa, pb \in NormPorts :
                NormalizeKey(a, b, pa, pb, <<54>>) = NormalizeKey(b, a, pb, pa, <<54>>)
       /\ AggCalled("add_packet")
         => LET p == last_call'.arg
                k == PacketKey(ReversePkt(p))
            IN /\ k = PacketKey(p)
               /\ PktsOf(flows', k) = PktsOf(flows, k) + 1
               /\ \A k2 \in Keys(flows') \ {k} : PktsOf(flows', k2) = PktsOf(flows, k2)
               /\ \A k1, k2 \in Keys(flows') : k2 = SwapKey(k1) => k1 = k2]_vars

\* packets of both directions were added and sit in one entry
C7_Witness ==
    /\ last_call.op = "add_packet" /\ last_call.arg = PktA4
    /\ Keys(flows) = {KeyA} /\ Lookup(flows, KeyA).pkts >= 2
    /\ Lookup(flows, KeyA).packet_sizes[1] = 64

\* now - last > tmo for a flow last seen at the float last: never when last is
\* nan or inf, always when it is -inf
OlderThan(last, now, tmo) ==
    IF last[2] = 0 THEN last[1] < 0 ELSE (now - tmo) * last[2] > last[1]

\* C8: collect_inactive_flows removes and returns exactly the flows with
\* now - last_ts > timeout, each once, and leaves the others unchanged; a key
\* enters the table only by add_packet of a record of that key, and a poll
\* returns the keys of the table.
C8_EvictExactlyInactive ==
    [][/\ AggCalled("collect_inactive_flows")
          => LET now == last_call'.arg
                 res == last_call'.val
             IN /\ \A i \in 1..Len(flows) :
                     LET k == flows[i][1]
                     IN IF OlderThan(flows[i][2].last_ts, now, timeout)
                        THEN /\ Cardinality({j \in 1..Len(res) : res[j][1] = k}) = 1
                             /\ <<k, Summarize(flows[i][2])>> \in {res[j] : j \in 1..Len(res)}
                             /\ k \notin Keys(flows')
                        ELSE /\ k \notin {res[j][1] : j \in 1..Len(res)}
                             /\ k \in Keys(flows')
                             /\ Lookup(flows', k) = flows[i][2]
                /\ Len(flows') + Len(res) = Len(flows)
       /\ \A k \in Keys(flows') \ Keys(flows) :
             AggCalled("add_packet") /\ PacketKey(last_call'.arg) = k
       /\ AggCalled("summarize_active_flows")
          => {last_call'.val[j][1] : j \in 1..Len(last_call'.val)} = Keys(flows)]_vars

\* at now = 31 the flow last seen at 0 was evicted and the flow last seen at 1.5 kept
C8_Witness ==
    /\ last_call.op = "collect_inactive_flows" /\ last_call.arg = 31 /\ timeout = 30
    /\ Len(last_call.val) = 1 /\ last_call.val[1][1] = KeyA
    /\ Keys(flows) = {KeyB} /\ Lookup(flows, KeyB).last_ts = <<3, 2>>

\* C9: summarize_active_flows changes nothing in the table, and two polls in a
\* row return the same list.
C9_PollNonDestructive ==
    [][AggCalled("summarize_active_flows")
         => /\ flows' = flows
            /\ Len(last_call'.val) = Len(flows)
            /\ last_call.op = "summarize_active_flows" => last_call'.val = last_call.val]_vars

\* two polls in a row of a table that holds a flow of several packets
C9_Witness ==
    /\ last_call.op = "summarize_active_flows" /\ last_call.prev = "summarize_active_flows"
    /\ Len(last_call.val) >= 1 /\ last_call.val[1][2].pkts >= 2
    /\ flows # <<>>

\* C10: flush_all returns one (key, summary) pair for every flow of the table,
\* each key once, and leaves the table empty: a poll or flush right after it
\* returns nothing.
C10_FlushAllDrains ==
    [][/\ AggCalled("flush_all")
          => LET res == last_call'.val
             IN /\ Len(res) = Len(flows)
                /\ \A i \in 1..Len(flows) :
                      /\ <<flows[i][1], Summarize(flows[i][2])>> \in {res[j] : j \in 1..Len(res)}
                      /\ Cardinality({j \in 1..Len(res) : res[j][1] = flows[i][1]}) = 1
                /\ flows' = <<>>
       /\ (last_call.op = "flush_all"
           /\ (AggCalled("flush_all") \/ AggCalled("summarize_active_flows")))
          => last_call'.val = <<>>]_vars

\* a flush of a table of two flows, after which the table is empty
C10_Witness ==
    /\ last_call.op = "flush_all"
    /\ Len(last_call.val) >= 2
    /\ flows = <<>>

\* a step in which the manager method op is called
MgrCalled(op) == Len(api') = Len(api) + 1 /\ api'[Len(api')].op = op
\* the last manager method called
LastMgrCall == IF api = <<>> THEN "none" ELSE api[Len(api)].op

\* C11: a block_ip call made while the manager is not loaded (never initialized,
\* initialization failed, or unloaded) runs no external command, returns False
\* and leaves the manager and the filter as they were.
C11_BlockOnlyWhenLoaded ==
    [][(MgrCalled("block_ip") /\ ~xdp.is_loaded)
         => (xdp' = xdp /\ xdp_ret' = FALSE)]_vars

\* block_ip was refused after the filter had been loaded and unloaded again
C11_Witness ==
    /\ LastMgrCall = "block_ip" /\ xdp_ret = FALSE /\ ~xdp.is_loaded
    /\ xdp.cmds = <<[cmd |-> "load", arg |-> <<>>], [cmd |-> "unload", arg |-> <<>>]>>

\* C12: in run(), initialize_xdp_filter runs one load command; if the load
\* succeeds or fails saying the filter is already loaded, the manager is loaded
\* and the call returns True; on any other failure it returns False and the
\* manager is not loaded. Either way run() goes on to the packet loop, and while
\* the manager is not loaded the loop runs no external command at all. (A call
\* that a KeyboardInterrupt cuts short returns nothing and ends run(); it has run
\* the load command at most once, and loaded the manager only if it has run it.)
C12_InitializeOutcome ==
    [][/\ MgrCalled("initialize_xdp_filter")
          => /\ \A out \in LoadOutcomes :
                   /\ InitializeXdpFilter(xdp, out).is_loaded = (out \in {"ok", "already"})
                   /\ InitializeXdpFilterRet(xdp, out) = (out \in {"ok", "already"})
                   /\ InitializeXdpFilter(xdp, out).cmds = <<[cmd |-> "load", arg |-> <<>>]>>
             /\ IF exc' = "KeyboardInterrupt"
                THEN /\ pc' = "done" /\ xdp_ret' = xdp_ret
                     /\ xdp'.cmds \in {<<>>, <<[cmd |-> "load", arg |-> <<>>]>>}
                     /\ xdp'.is_loaded => xdp'.cmds # <<>>
                ELSE /\ xdp'.cmds = <<[cmd |-> "load", arg |-> <<>>]>>
                     /\ xdp_ret' = xdp'.is_loaded
                     /\ pc' = "open_log" /\ exc' = "none"
       /\ (~MgrCalled("initialize_xdp_filter") /\ ~xdp.is_loaded)
          => (~xdp'.is_loaded /\ xdp'.cmds = xdp.cmds)]_vars

\* the load failed, and run() ingested packets, labelled a flow MALICIOUS, called
\* block_ip for it and ended normally with the load as the only command run
C12_Witness ==
    /\ pc = "done" /\ exc = "none" /\ npkts >= 2
    /\ api[1].op = "initialize_xdp_filter" /\ ~xdp.is_loaded
    /\ xdp.cmds = <<[cmd |-> "load", arg |-> <<>>]>>
    /\ \E i \in 1..Len(rows) : rows[i].label = "MALICIOUS"
    /\ \E i \in 1..Len(api) : api[i].op = "block_ip"

\* C13: once initialize_xdp_filter has failed on a manager that is not loaded,
\* the next manager call does not load the manager (and so no later call runs a
\* block command).
C13_FailedIsTerminal ==
    [][(LastMgrCall = "initialize_xdp_filter" /\ xdp_ret = FALSE /\ ~xdp.is_loaded)
         => ~xdp'.is_loaded]_vars

\* the models raise for the flow the for loop is about to evaluate
HeadRaises ==
    /\ pending # <<>>
    /\ ClassifierOutcome(clf, ExtractFeatures(Head(pending)[1], Head(pending)[2])).raises

\* C14: when predict() raises for a flow of the per-packet poll, run() skips that
\* flow (no row, no block) and goes on with the rest of the poll's list, without
\* an exception ending the loop; the only other step possible there is an
\* interrupt.
C14_ClassifierFailureSkipped ==
    [][(pc = "eval" /\ HeadRaises)
         => \/ pc' = "handler"
            \/ /\ pc' = "eval" /\ exc' = "none"
               /\ pending' = Tail(pending)
               /\ rows' = rows /\ api' = api]_vars

\* C15: once the loop has ended (capture over, or interrupt), every flow that
\* waits to be finalized is classified and logged before anything else happens,
\* an interrupt arriving meanwhile included, and unload_xdp_filter is called only
\* when the table and the list to finalize are empty (predict() not raising).
C15_ShutdownOrdering ==
    [][/\ (pc \in {"flush", "int_flush"} /\ pending # <<>> /\ ~HeadRaises)
          => /\ Len(rows') = Len(rows) + 1
             /\ rows'[Len(rows')].key = Head(pending)[1]
             /\ pending' = Tail(pending)
             /\ pc' = pc
       /\ (MgrCalled("unload_xdp_filter") /\ exc # "Exception")
          => (flows = <<>> /\ pending = <<>>)]_vars

\* C16: every step that ends run() while the manager is loaded (initialize
\* returned True) runs the external unload command.
C16_UnloadOnEveryExit ==
    [][(pc # "done" /\ pc' = "done" /\ xdp.is_loaded)
         => xdp'.cmds = Append(xdp.cmds, [cmd |-> "unload", arg |-> <<>>])]_vars

\* C17: the unload_xdp_filter call of run()'s finally block, when it returns,
\* has run the unload command if the manager was loaded (and none otherwise) and
\* returns False exactly when that command failed, the manager staying loaded; it
\* raises nothing, and run() ends with the exception it had, or with a
\* KeyboardInterrupt that arrived right after the call. Only a KeyboardInterrupt
\* inside the call makes it raise: it has then returned nothing and run the
\* unload command at most once. The exception run() ends with is never an error
\* of the unload command.
C17_UnloadFailureSwallowed ==
    [][MgrCalled("unload_xdp_filter")
         => LET unload == [cmd |-> "unload", arg |-> <<>>]
            IN /\ pc = "finally" /\ pc' = "done"
               /\ xdp'.is_loaded => xdp.is_loaded
               /\ \/ /\ exc' \in {exc, "KeyboardInterrupt"}
                     /\ xdp_ret' = ~xdp'.is_loaded
                     /\ xdp'.cmds = IF xdp.is_loaded THEN Append(xdp.cmds, unload)
                                    ELSE xdp.cmds
                  \/ /\ exc' = "KeyboardInterrupt"
                     /\ xdp_ret' = xdp_ret
                     /\ xdp'.cmds \in {xdp.cmds, Append(xdp.cmds, unload)}
                     /\ xdp'.cmds # xdp.cmds => xdp.is_loaded
                     /\ xdp'.is_loaded # xdp.is_loaded => xdp'.cmds # xdp.cmds]_vars

\* the unload command failed at the end of a run that logged flows: run() is
\* over with no exception, unload returned False and the manager is still loaded
C17_Witness ==
    /\ pc = "done" /\ exc = "none" /\ rows # <<>>
    /\ LastMgrCall = "unload_xdp_filter" /\ xdp_ret = FALSE /\ xdp.is_loaded
    /\ xdp.cmds[Len(xdp.cmds)].cmd = "unload"

\* field values that are blank or do not parse as a timestamp, a length or a
\* flags value: "", "x", "zz", "5_", "--5", "1,5"
Junk == {<<>>, <<120>>, <<122, 122>>, <<53, 95>>, <<45, 45, 53>>, <<49, 44, 53>>}
\* 10-field records 5.5.5.5 -> 5.5.5.5 with every combination of a good, blank or
\* unparsable timestamp ("5"), length ("100") and flags ("0x0018"), and of ports
\* given (UDP 9 -> 7), half given or all blank
MalformedRecords ==
    {<<ts, IpC, IpC, <<>>, <<>>, ports[1], ports[2], <<49, 55>>, ln, fl>> :
        ts \in {<<>>, <<120>>, <<49, 44, 53>>, <<53>>},
        ports \in {<< <<>>, <<>> >>, << <<>>, <<55>> >>, << <<57>>, <<55>> >>},
        ln \in {<<>>, <<120>>, <<45, 45, 53>>, <<49, 48, 48>>},
        fl \in {<<>>, <<122, 122>>, <<53, 95>>, <<48, 120, 48, 48, 49, 56>>}}

\* fl2 is the table fl after a complete add_packet(p) at clock value now, with
\* the defaults applied for the fields of p that are blank or do not parse
AddedWithDefaults(fl, p, now, fl2) ==
    LET k == PacketKey(p)
        st == Lookup(fl2, k)
        old == IF k \in Keys(fl) THEN Lookup(fl, k) ELSE NewFlowState(<<now, 1>>)
    IN /\ k \in Keys(fl2)
       /\ st.pkts = PktsOf(fl, k) + 1
       /\ Keys(fl2) = Keys(fl) \cup {k}
       /\ \A k2 \in Keys(fl) \ {k} : Lookup(fl2, k2) = Lookup(fl, k2)
       /\ Len(st.packet_sizes) = st.pkts
       /\ p[9] \in Junk
          => (st.packet_sizes[st.pkts] = 0 /\ st.total_bytes = old.total_bytes)
       /\ (p[4] = <<>> /\ p[6] = <<>>) => <<48>> \in {k[3], k[4]}
       /\ (p[5] = <<>> /\ p[7] = <<>>) => <<48>> \in {k[3], k[4]}
       /\ p[10] \in Junk => st.tcp_flags = old.tcp_flags
       /\ p[1] \in Junk => st.last_ts = <<now, 1>>

\* C18: add_packet of a 10-field record whose timestamp, ports, length or flags
\* are blank or do not parse completes: the record's flow is in the table with
\* its packet count one higher, the other flows are untouched, a missing length
\* counts 0 bytes, a missing port is "0", missing flags change no counter and a
\* missing timestamp is the clock. Checked for the record of each add_packet
\* call, and for every record of MalformedRecords added to the empty table and
\* to each table of one flow.
C18_MalformedRecordsIngested ==
    [][AggCalled("add_packet")
         => /\ AddedWithDefaults(flows, last_call'.arg, clock', flows')
            /\ ncalls < 2
               => \A q \in MalformedRecords :
                     AddedWithDefaults(flows, q, clock', AggAddPacket(flows, q, clock'))]_vars

\* the record with blank timestamp and ports, length "x" and flags "zz" was
\* added twice: its flow holds two packets of 0 bytes and no flag counter
C18_Witness ==
    /\ last_call.op = "add_packet" /\ last_call.arg = PktM1
    /\ PacketKey(PktM1) = <<IpC, IpC, <<48>>, <<48>>, <<>> >>
    /\ PktsOf(flows, PacketKey(PktM1)) = 2
    /\ Lookup(flows, PacketKey(PktM1)).packet_sizes = <<0, 0>>
    /\ DOMAIN Lookup(flows, PacketKey(PktM1)).tcp_flags = {}
    /\ Lookup(flows, PacketKey(PktM1)).last_ts = <<clock, 1>>

\* C19: a run() that ends with the FileNotFoundError of the missing model files
\* has ingested no packet, called no manager method, run no external command
\* and written no log row.
C19_MissingModelsFatalEarly ==
    exc = "FileNotFoundError: model files"
      => /\ pc = "done"
         /\ npkts = 0 /\ flows = <<>>
         /\ api = <<>> /\ xdp.cmds = <<>> /\ ~xdp.is_loaded
         /\ rows = <<>>

\* run() has ended with the FileNotFoundError
C19_Witness ==
    pc = "done" /\ exc = "FileNotFoundError: model files" /\ npkts = 0 /\ api = <<>>

\* C20: when the table holds the flow 1.2.3.4:5000 <-> 9.9.9.9:80 with three
\* packets of 64, 128 and 256 bytes, PSH counted once and URG counted once, the
\* feature vector extracted from the flow's polled summary has PSH Flag Count 1,
\* URG Flag Count 1, Min Packet Length 64 and Max Packet Length 256.
C20_FeatureMapping ==
    (/\ last_call.op = "summarize_active_flows"
     /\ Keys(flows) = {KeyA}
     /\ Lookup(flows, KeyA).packet_sizes = <<64, 128, 256>>
     /\ {"PSH", "URG"} \subseteq DOMAIN Lookup(flows, KeyA).tcp_flags
     /\ Lookup(flows, KeyA).tcp_flags["PSH"] = 1
     /\ Lookup(flows, KeyA).tcp_flags["URG"] = 1)
    => LET fv == ExtractFeatures(KeyA, last_call.val[1][2])
       IN /\ fv[16] = RatOfInt(1)
          /\ fv[17] = RatOfInt(1)
          /\ fv[11] = RatOfInt(64)
          /\ fv[12] = RatOfInt(256)

\* the values of a sequence
Range(xs) == {xs[i] : i \in 1..Len(xs)}

\* C21: a poll of a table holding a flow whose packet sizes are 100, 200 and 300
\* in any order reports for it mean 200, variance 20000/3, a standard deviation
\* in [81.64, 81.65), min 100 and max 300.
C21_PopulationStatistics ==
    last_call.op = "summarize_active_flows"
      => \A i \in 1..Len(flows) :
            (Len(flows[i][2].packet_sizes) = 3
             /\ Range(flows[i][2].packet_sizes) = {100, 200, 300})
            => LET sm == last_call.val[i][2]
               IN /\ last_call.val[i][1] = flows[i][1]
                  /\ sm.pkt_mean = <<200, 1>>
                  /\ sm.pkt_var = <<20000, 3>>
                  /\ RatGE(sm.pkt_std, <<8164, 100>>) /\ RatLT(sm.pkt_std, <<8165, 100>>)
                  /\ sm.avg_pkt_size = <<200, 1>>
                  /\ sm.min_pkt = 100 /\ sm.max_pkt = 300

\* the flow was polled after packets of 300, 100 and 200 bytes, in that order
C21_Witness ==
    /\ last_call.op = "summarize_active_flows"
    /\ Len(flows) = 1 /\ flows[1][2].packet_sizes = <<300, 100, 200>>
    /\ last_call.val[1][2].pkts = 3 /\ last_call.val[1][2].pkt_var = <<20000, 3>>

\* the timestamp fields of the records, each with the float it spells:
\* "0", "1", "2", "3", "5", "1.5", "nan"
TsTable ==
    { << <<48>>, <<0, 1>> >>, << <<49>>, <<1, 1>> >>, << <<50>>, <<2, 1>> >>,
      << <<51>>, <<3, 1>> >>, << <<53>>, <<5, 1>> >>,
      << <<49, 46, 53>>, <<3, 2>> >>, << <<110, 97, 110>>, <<0, 0>> >> }
\* the timestamp add_packet takes for the record p: the float its timestamp
\* field spells, or the clock value now when the field is blank or does not parse
RecordTs(p, now) ==
    IF p[1] \in Junk THEN <<now, 1>>
    ELSE (CHOOSE e \in TsTable : e[1] = p[1])[2]

\* C22: add_packet of a record whose key is not in the table adds exactly one
\* entry, with first_ts = last_ts = the record's timestamp and packet count 1;
\* for a key in the table it adds no entry, keeps first_ts, sets last_ts to the
\* record's timestamp and raises the packet count by one; every other flow of
\* the table is unchanged.
C22_AddCreatesOrUpdates ==
    [][AggCalled("add_packet")
         => LET p == last_call'.arg
                k == PacketKey(p)
                ts == RecordTs(p, clock')
            IN /\ p[1] \in Junk \cup {e[1] : e \in TsTable}
               /\ Keys(flows') = Keys(flows) \cup {k}
               /\ Cardinality(Keys(flows')) = Len(flows')
               /\ k \notin Keys(flows)
                  => /\ Len(flows') = Len(flows) + 1
                     /\ Lookup(flows', k).first_ts = ts
                     /\ Lookup(flows', k).last_ts = ts
                     /\ Lookup(flows', k).pkts = 1
               /\ k \in Keys(flows)
                  => /\ Len(flows') = Len(flows)
                     /\ Lookup(flows', k).first_ts = Lookup(flows, k).first_ts
                     /\ Lookup(flows', k).last_ts = ts
                     /\ Lookup(flows', k).pkts = Lookup(flows, k).pkts + 1
               /\ \A k2 \in Keys(flows) \ {k} : Lookup(flows', k2) = Lookup(flows, k2)]_vars

\* a second packet, stamped 3, was added to the flow first seen at 5 while the
\* table held another flow
C22_Witness ==
    /\ last_call.op = "add_packet" /\ last_call.arg = PktC3
    /\ Keys(flows) = {KeyA, KeyC}
    /\ Lookup(flows, KeyC).first_ts = <<5, 1>> /\ Lookup(flows, KeyC).last_ts = <<3, 1>>
    /\ Lookup(flows, KeyC).pkts = 2 /\ Lookup(flows, KeyA).pkts = 1

\* max(1e-6, last_ts - first_ts): the difference when it is a number above
\* 1e-6 (inf when the flow ends at inf or starts at -inf), 1e-6 otherwise, the
\* difference being nan included
ExpectedDuration(st) ==
    LET a == st.first_ts
        b == st.last_ts
        n == b[1] * a[2] - a[1] * b[2]
        d == a[2] * b[2]
    IN IF a = <<0, 0>> \/ b = <<0, 0>> THEN <<1, 1000000>>
       ELSE IF b = <<1, 0>> THEN (IF a = <<1, 0>> THEN <<1, 1000000>> ELSE <<1, 0>>)
       ELSE IF a = <<-1, 0>> THEN (IF b = <<-1, 0>> THEN <<1, 1000000>> ELSE <<1, 0>>)
       ELSE IF a[2] = 0 \/ b[2] = 0 THEN <<1, 1000000>>
       ELSE IF n * 1000000 > d THEN Rat(n, d)
       ELSE <<1, 1000000>>

\* C23: every summary a poll, an eviction or a flush returns carries the duration
\* max(1e-6, last_ts - first_ts) of its flow, which is greater than zero, also
\* for flows whose timestamps are equal or go backwards.
C23_DurationAtLeastEpsilon ==
    [][(AggCalled("summarize_active_flows") \/ AggCalled("collect_inactive_flows")
        \/ AggCalled("flush_all"))
         => \A j \in 1..Len(last_call'.val) :
               LET k == last_call'.val[j][1]
                   d == last_call'.val[j][2].duration
               IN /\ k \in Keys(flows)
                  /\ d = ExpectedDuration(Lookup(flows, k))
                  /\ d[1] > 0 /\ d[2] >= 0
                  /\ d[2] > 0 => d[1] * 1000000 >= d[2]]_vars

\* a poll returned the duration 1e-6 for a flow first seen at 5 and last seen at 3
C23_Witness ==
    /\ last_call.op = "summarize_active_flows"
    /\ Keys(flows) = {KeyC}
    /\ Lookup(flows, KeyC).first_ts = <<5, 1>> /\ Lookup(flows, KeyC).last_ts = <<3, 1>>
    /\ last_call.val[1][2].duration = <<1, 1000000>>

\* the names of the six flag counters
FlagBitNames == {"SYN", "PSH", "URG", "FIN", "RST", "ACK"}
\* "0x00ab" for the characters a and b
Hx(a, b) == <<48, 120, 48, 48, a, b>>
\* flags values, as tshark prints them and in the other forms int(s, 0) reads
\* or refuses, each with the flags whose bit it has set
\* (FIN 0x001, SYN 0x002, RST 0x004, PSH 0x008, ACK 0x010, URG 0x020)
FlagTable ==
    { <<Hx(48, 49), {"FIN"}>>, <<Hx(48, 50), {"SYN"}>>, <<Hx(48, 52), {"RST"}>>,
      <<Hx(48, 56), {"PSH"}>>, <<Hx(49, 48), {"ACK"}>>, <<Hx(50, 48), {"URG"}>>,
      <<Hx(49, 50), {"SYN", "ACK"}>>, <<Hx(49, 56), {"PSH", "ACK"}>>,
      <<Hx(51, 48), {"URG", "ACK"}>>, <<Hx(48, 53), {"FIN", "RST"}>>,
      <<Hx(51, 102), FlagBitNames>>, <<Hx(48, 48), {}>>,
      <<<<>>, {}>>, <<<<122, 122>>, {}>>,
      \* "-1", "0o22", "0b11", "0o17", "-0x10", "1_0", "010", " 0x10", "18"
      <<<<45, 49>>, FlagBitNames>>, <<<<48, 111, 50, 50>>, {"SYN", "ACK"}>>,
      <<<<48, 98, 49, 49>>, {"FIN", "SYN"}>>,
      <<<<48, 111, 49, 55>>, {"FIN", "SYN", "RST", "PSH"}>>,
      <<<<45, 48, 120, 49, 48>>, {"ACK", "URG"}>>,
      <<<<49, 95, 48>>, {"SYN", "PSH"}>>, <<<<48, 49, 48>>, {}>>,
      <<<<32, 48, 120, 49, 48>>, {"ACK"}>>, <<<<49, 56>>, {"SYN", "ACK"}>> }
\* the flags set in the flags value f
FlagsOf(f) == (CHOOSE e \in FlagTable : e[1] = f)[2]
\* the counter of a flag in a FlowState's tcp_flags
Counter(f, name) == IF name \in DOMAIN f THEN f[name] ELSE 0
\* the counters new are the counters old with the flags value f counted once
CountedOnce(old, f, new) ==
    /\ DOMAIN new \subseteq FlagBitNames
    /\ \A name \in FlagBitNames :
          Counter(new, name) = Counter(old, name) + (IF name \in FlagsOf(f) THEN 1 ELSE 0)

\* C24: add_packet raises each of the SYN, PSH, URG, FIN, RST, ACK counters of the
\* record's flow by one exactly when the record's flags value has that bit set: a
\* value with several bits raises each of them once, a blank or unparsable value
\* raises none (so each counter is the number of the flow's packets with that
\* bit). Checked for the record of each add_packet call, and for every flags value
\* of FlagTable added to a fresh flow and to the flows of each one-flow table.
C24_FlagCountersPerBit ==
    [][AggCalled("add_packet")
         => LET p == last_call'.arg
                k == PacketKey(p)
                old == IF k \in Keys(flows) THEN Lookup(flows, k).tcp_flags
                       ELSE NewFlowState(<<0, 1>>).tcp_flags
            IN /\ p[10] \in {e[1] : e \in FlagTable}
               /\ CountedOnce(old, p[10], Lookup(flows', k).tcp_flags)
               /\ ncalls < 2
                  => \A e \in FlagTable :
                     \A st \in {NewFlowState(<<0, 1>>)}
                                \cup {flows[i][2] : i \in 1..Len(flows)} :
                        CountedOnce(st.tcp_flags, e[1],
                                    FlowStateAddPacket(st, 0, <<0, 1>>, e[1]).tcp_flags)]_vars

\* the flow holds the packets flagged SYN, PSH+ACK and URG+ACK: SYN, PSH and URG
\* were counted once, ACK twice, FIN and RST never
C24_Witness ==
    /\ last_call.op = "add_packet" /\ last_call.arg = PktA3
    /\ Keys(flows) = {KeyA} /\ Lookup(flows, KeyA).pkts = 3
    /\ Lookup(flows, KeyA).tcp_flags =
          [n \in {"SYN", "PSH", "URG", "ACK"} |-> IF n = "ACK" THEN 2 ELSE 1]

\* C25: after each packet run() ingests, the list it goes through holds every flow
\* of the table (the packet's own flow and all others); each step of that list
\* writes exactly one row, for the flow at its head, and the loop returns to the
\* capture only when the list is exhausted. The only other step allowed is a
\* KeyboardInterrupt.
C25_EveryFlowEvaluated ==
    [][/\ (pc = "loop" /\ pc' = "eval")
          => /\ Len(pending') = Len(flows') /\ flows' # <<>>
             /\ \A i \in 1..Len(flows') :
                   pending'[i] = <<flows'[i][1], Summarize(flows'[i][2])>>
             /\ rows' = rows
       /\ (pc = "eval" /\ pending # <<>>)
          => \/ pc' = "handler"
             \/ /\ pc' = "eval"
                /\ Len(rows') = Len(rows) + 1
                /\ rows'[Len(rows')].key = Head(pending)[1]
                /\ pending' = Tail(pending)
                /\ flows' = flows
       /\ (pc = "eval" /\ pending = <<>>)
          => (pc' \in {"loop", "handler"} /\ rows' = rows)]_vars

RECURSIVE SumOf(_)
\* the sum of a sequence of numbers
SumOf(xs) == IF Len(xs) = 0 THEN 0 ELSE xs[Len(xs)] + SumOf(SubSeq(xs, 1, Len(xs) - 1))

\* C26: every flow of the table has a packet count of at least 1 that equals the
\* number of recorded packet sizes, a byte total that equals the sum of the
\* recorded sizes, and one inter-arrival sample less than packets.
C26_AccumulatorConsistency ==
    \A i \in 1..Len(flows) :
       LET st == flows[i][2]
       IN /\ st.pkts >= 1
          /\ st.pkts = Len(st.packet_sizes)
          /\ st.total_bytes = SumOf(st.packet_sizes)
          /\ Len(st.inter_arrivals) = st.pkts - 1

\* after adds and an eviction the table holds a flow of two packets of 100 bytes
C26_Witness ==
    /\ last_call.op = "collect_inactive_flows" /\ Len(last_call.val) = 1
    /\ Keys(flows) = {KeyB}
    /\ Lookup(flows, KeyB).pkts = 2 /\ Lookup(flows, KeyB).total_bytes = 200
    /\ Len(Lookup(flows, KeyB).inter_arrivals) = 1

\* the addresses and the ports of the records, each list in Python's str order:
\* "1.2.3.4" < "5.5.5.5" < "9.9.9.9" and
\* "0" < "4000" < "5000" < "53" < "7" < "80" < "9"
AddrOrder == <<IpA, IpC, IpB>>
PortOrder ==
    << <<48>>, <<52, 48, 48, 48>>, <<53, 48, 48, 48>>, <<53, 51>>, <<55>>, <<56, 48>>, <<57>> >>
\* the place of s in the list order
Rank(order, s) == CHOOSE i \in 1..Len(order) : order[i] = s
\* the key k = (a, b, pa, pb, proto) is in normalized form: (a, pa) <= (b, pb)
IsNormalized(k) ==
    /\ k[1] \in Range(AddrOrder) /\ k[2] \in Range(AddrOrder)
    /\ k[3] \in Range(PortOrder) /\ k[4] \in Range(PortOrder)
    /\ \/ Rank(AddrOrder, k[1]) < Rank(AddrOrder, k[2])
       \/ /\ k[1] = k[2]
          /\ Rank(PortOrder, k[3]) <= Rank(PortOrder, k[4])

\* C27: every key of the flow table is in normalized form, (a, pa) <= (b, pb) in
\* Python's order, and the table never holds two keys that are the two
\* directions of one conversation.
C27_KeysNormalized ==
    /\ \A k \in Keys(flows) : IsNormalized(k)
    /\ \A k1, k2 \in Keys(flows) : k2 = SwapKey(k1) => k1 = k2
    /\ Cardinality(Keys(flows)) = Len(flows)

\* the table holds two conversations, each seen in both directions
C27_Witness ==
    /\ Keys(flows) = {KeyA, KeyC}
    /\ KeyA = <<IpA, IpB, <<53, 48, 48, 48>>, <<56, 48>>, <<54>> >>
    /\ KeyC = <<IpC, IpC, <<55>>, <<57>>, <<49, 55>> >>
    /\ Lookup(flows, KeyA).packet_sizes = <<64, 128>>
    /\ Lookup(flows, KeyC).packet_sizes = <<100, 200>>
    /\ last_call.arg \in {PktA4, PktC2}

\* the length add_packet takes for the record p: the number its frame.len field
\* spells ("64", "128", "256", "100", "200", "300", "-5", " 7"), 0 for any
\* other field
RecordLen(p) ==
    CASE p[9] = <<54, 52>> -> 64
      [] p[9] = <<49, 50, 56>> -> 128
      [] p[9] = <<50, 53, 54>> -> 256
      [] p[9] = <<49, 48, 48>> -> 100
      [] p[9] = <<50, 48, 48>> -> 200
      [] p[9] = <<51, 48, 48>> -> 300
      [] p[9] = <<45, 53>> -> -5
      [] p[9] = <<32, 55>> -> 7
      [] OTHER -> 0

\* the keys of a list of (key, summary) pairs
ResultKeys(res) == {res[j][1] : j \in 1..Len(res)}

\* C28: add_packet of a record whose key is not in the table, in particular a
\* key that the call just before evicted or flushed, creates an entry that holds
\* this packet alone: packet count 1, byte total the packet's length, no
\* inter-arrival sample, flag counters counting this packet's flags only, and
\* first_ts the packet's timestamp.
C28_RemovedFlowRestarts ==
    [][AggCalled("add_packet")
         => LET p == last_call'.arg
                k == PacketKey(p)
                st == Lookup(flows', k)
                removed == /\ last_call.op \in {"collect_inactive_flows", "flush_all"}
                           /\ k \in ResultKeys(last_call.val)
            IN (removed \/ k \notin Keys(flows))
               => /\ st.pkts = 1
                  /\ st.total_bytes = RecordLen(p)
                  /\ st.packet_sizes = <<RecordLen(p)>>
                  /\ st.inter_arrivals = <<>>
                  /\ CountedOnce(<<>>, p[10], st.tcp_flags)
                  /\ st.first_ts = RecordTs(p, clock')
                  /\ st.last_ts = st.first_ts]_vars

\* right after a flush, the third packet of the flow 1.2.3.4:5000 <-> 9.9.9.9:80
\* was added: the table holds that flow with this packet alone
C28_Witness ==
    /\ last_call.op = "add_packet" /\ last_call.prev = "flush_all"
    /\ last_call.arg = PktA3 /\ ncalls = 4
    /\ Keys(flows) = {KeyA}
    /\ Lookup(flows, KeyA).pkts = 1 /\ Lookup(flows, KeyA).total_bytes = 256
    /\ Lookup(flows, KeyA).first_ts = <<2, 1>> /\ Lookup(flows, KeyA).inter_arrivals = <<>>
    /\ Lookup(flows, KeyA).tcp_flags = [n \in {"URG", "ACK"} |-> 1]

\* the command list grows by exactly the command cmd with argument arg
CmdRun(cmd, arg) == xdp'.cmds = Append(xdp.cmds, [cmd |-> cmd, arg |-> arg])

\* C29: the manager stops being loaded only in an unload_xdp_filter call whose
\* command succeeds; an unload whose command fails returns False and leaves it
\* loaded, and a block_ip right after it still runs the block command; a
\* block_ip right after an unload that returned True runs nothing; an unload of a
\* manager that is not loaded runs no command and returns True.
C29_LoadedUntilUnloaded ==
    [][/\ (xdp.is_loaded /\ ~xdp'.is_loaded)
          => (MgrCalled("unload_xdp_filter") /\ xdp_ret' = TRUE /\ CmdRun("unload", <<>>))
       /\ (MgrCalled("unload_xdp_filter") /\ xdp.is_loaded)
          => (CmdRun("unload", <<>>) /\ xdp_ret' = ~xdp'.is_loaded)
       /\ (MgrCalled("unload_xdp_filter") /\ ~xdp.is_loaded)
          => (xdp' = xdp /\ xdp_ret' = TRUE)
       /\ (MgrCalled("block_ip") /\ LastMgrCall = "unload_xdp_filter")
          => IF xdp_ret
             THEN xdp' = xdp /\ xdp_ret' = FALSE
             ELSE \E ip \in BlockAddrs : BlockIpCalled(ip) /\ CmdRun("ip", ip)]_vars

\* the unload command failed and the block_ip after it ran its command: the
\* manager is still loaded
C29_Witness ==
    /\ Len(api) = 3 /\ LastMgrCall = "block_ip" /\ api[2].op = "unload_xdp_filter"
    /\ xdp.is_loaded
    /\ xdp.cmds = <<[cmd |-> "load", arg |-> <<>>], [cmd |-> "unload", arg |-> <<>>],
                    [cmd |-> "ip", arg |-> IpA]>>

====
